---- MODULE Spec2Model ----
(***************************************************************************)
(* A model of the GNSS front-end firmware: the streaming NMEA sentence     *)
(* parser MicropyGPS (src/micropyGPS.py) and the asyncio orchestration of  *)
(* src/main.py (serial relay, PPS display sync, logging lifecycle).        *)
(*                                                                         *)
(* Conventions.  A character is its ASCII code; a Python str or bytearray  *)
(* is a sequence of codes.  Python's None is the empty tuple <<>> and a    *)
(* present optional value x is <<x>>.  A Python float is a record          *)
(* [k, m, e]: k = "fin" stands for the decimal m * 10^(-e) (normalised),   *)
(* k = "nan" for nan and k = "inf" for m * infinity.  A Python list or     *)
(* tuple is a sequence and a dict is a function.  gps_segments[i] of the   *)
(* source (0-based) is segs[i + 1] here.                                   *)
(***************************************************************************)
EXTENDS Integers, Sequences, FiniteSets, TLC

(***************************************************************************)
(* Characters and Python's str -> number conversions                       *)
(***************************************************************************)

\* '$', ',', '*' as tested by update()
DOLLAR == 36
COMMA == 44
STAR == 42

RECURSIVE XorBits(_, _, _)
XorBits(a, b, n) ==
    IF n = 0 THEN 0
    ELSE (((a % 2) + (b % 2)) % 2) + 2 * XorBits(a \div 2, b \div 2, n - 1)

\* Python's a ^ b on the values update() accumulates
\* (characters are below 2^7, so 8 bits hold every accumulated value)
Xor(a, b) == XorBits(a, b, 8)

IsDigit(c) == c >= 48 /\ c <= 57
IsHexDigit(c) == IsDigit(c) \/ (c >= 65 /\ c <= 70) \/ (c >= 97 /\ c <= 102)
DigitVal(c) ==
    IF IsDigit(c) THEN c - 48
    ELSE IF c >= 97 THEN c - 87
    ELSE c - 55
\* the ASCII characters int() and float() strip from both ends of a string
\* (update() passes no other characters on)
IsSpace(c) == c \in (9..13) \cup {32}
\* '_', '+', '-', '.' are 95, 43, 45, 46

\* Python slice s[a:b] with 0 <= a <= b (never raises)
Slice(s, a, b) ==
    LET hi == IF b < Len(s) THEN b ELSE Len(s)
    IN IF a >= hi THEN <<>> ELSE SubSeq(s, a + 1, hi)
\* Python slice s[a:]
SliceFrom(s, a) == Slice(s, a, Len(s))

RECURSIVE LStrip(_)
LStrip(s) == IF s # <<>> /\ IsSpace(Head(s)) THEN LStrip(Tail(s)) ELSE s
RECURSIVE RStrip(_)
RStrip(s) ==
    IF s # <<>> /\ IsSpace(s[Len(s)]) THEN RStrip(SubSeq(s, 1, Len(s) - 1)) ELSE s
\* str.strip()
Strip(s) == RStrip(LStrip(s))

\* digits of the given base with single underscores between digits only
DigitRunOK(s, hex) ==
    /\ s # <<>>
    /\ s[1] # 95
    /\ s[Len(s)] # 95
    /\ \A i \in 1..Len(s) :
          /\ (s[i] = 95
              \/ (IF hex THEN IsHexDigit(s[i]) ELSE IsDigit(s[i])))
          /\ (s[i] = 95 /\ i < Len(s) => s[i + 1] # 95)

RECURSIVE DigitRunVal(_, _, _)
DigitRunVal(s, base, acc) ==
    IF s = <<>> THEN acc
    ELSE IF Head(s) = 95 THEN DigitRunVal(Tail(s), base, acc)
    ELSE DigitRunVal(Tail(s), base, acc * base + DigitVal(Head(s)))

HasSign(t) == t # <<>> /\ t[1] \in {43, 45}
SignOf(t) == IF t # <<>> /\ t[1] = 45 THEN -1 ELSE 1
Unsigned(t) == IF HasSign(t) THEN Tail(t) ELSE t

\* int(s): [ok |-> FALSE] stands for ValueError
ParseInt(s) ==
    LET t == Strip(s)
        body == Unsigned(t)
    IN IF DigitRunOK(body, FALSE)
       THEN [ok |-> TRUE, v |-> SignOf(t) * DigitRunVal(body, 10, 0)]
       ELSE [ok |-> FALSE, v |-> 0]

\* int(s, 16): [ok |-> FALSE] stands for ValueError
ParseHex(s) ==
    LET t == Strip(s)
        body == Unsigned(t)
        prefixed == Len(body) >= 2 /\ body[1] = 48 /\ body[2] \in {88, 120}
        rest == IF prefixed THEN SliceFrom(body, 2) ELSE body
        run == IF prefixed /\ rest # <<>> /\ rest[1] = 95
               THEN Tail(rest) ELSE rest
    IN IF DigitRunOK(run, TRUE)
       THEN [ok |-> TRUE, v |-> SignOf(t) * DigitRunVal(run, 16, 0)]
       ELSE [ok |-> FALSE, v |-> 0]

RECURSIVE Pow10(_)
Pow10(n) == IF n <= 0 THEN 1 ELSE 10 * Pow10(n - 1)

(***************************************************************************)
(* Naturals of any size: limbs of base 10^4, least significant first, no   *)
(* zero limb at the top; <<>> is zero.  The operators split their limb     *)
(* range in halves, which keeps the evaluation shallow                     *)
(***************************************************************************)
Base == 10000

BTrim(a) ==
    IF \A i \in 1..Len(a) : a[i] = 0 THEN <<>>
    ELSE SubSeq(a, 1, CHOOSE i \in 1..Len(a) :
                          a[i] # 0 /\ \A j \in (i + 1)..Len(a) : a[j] = 0)

\* n < Base^2 as limbs
BOfInt(n) ==
    IF n = 0 THEN <<>>
    ELSE IF n < Base THEN <<n>>
    ELSE IF n < Base * Base THEN <<n % Base, n \div Base>>
    ELSE <<n % Base, (n \div Base) % Base, n \div (Base * Base)>>

Limb(a, i) == IF i <= Len(a) THEN a[i] ELSE 0

RECURSIVE BAddRange(_, _, _, _, _)
\* limbs lo..hi of a + b with carry c coming in: [s, c], c the carry out
BAddRange(a, b, lo, hi, c) ==
    IF lo = hi
    THEN [s |-> <<(Limb(a, lo) + Limb(b, lo) + c) % Base>>,
          c |-> (Limb(a, lo) + Limb(b, lo) + c) \div Base]
    ELSE LET Join(L, H) == [s |-> L.s \o H.s, c |-> H.c]
             Then(L) == Join(L, BAddRange(a, b, ((lo + hi) \div 2) + 1, hi, L.c))
         IN Then(BAddRange(a, b, lo, (lo + hi) \div 2, c))
BAdd(a, b) ==
    LET Out(r) == IF r.c = 0 THEN r.s ELSE Append(r.s, r.c)
    IN IF a = <<>> THEN b
       ELSE IF b = <<>> THEN a
       ELSE Out(BAddRange(a, b, 1, IF Len(a) > Len(b) THEN Len(a) ELSE Len(b), 0))

RECURSIVE BSubRange(_, _, _, _, _)
\* limbs lo..hi of a - b with borrow c coming in: [s, c], c the borrow out
BSubRange(a, b, lo, hi, c) ==
    IF lo = hi
    THEN [s |-> <<(a[lo] - Limb(b, lo) - c + Base) % Base>>,
          c |-> IF a[lo] - Limb(b, lo) - c < 0 THEN 1 ELSE 0]
    ELSE LET Join(L, H) == [s |-> L.s \o H.s, c |-> H.c]
             Then(L) == Join(L, BSubRange(a, b, ((lo + hi) \div 2) + 1, hi, L.c))
         IN Then(BSubRange(a, b, lo, (lo + hi) \div 2, c))
\* a - b for a >= b
BSub(a, b) == IF b = <<>> THEN a ELSE BTrim(BSubRange(a, b, 1, Len(a), 0).s)

\* -1, 0, 1 as a < b, a = b, a > b
BCmp(a, b) ==
    IF Len(a) > Len(b) THEN 1
    ELSE IF Len(a) < Len(b) THEN -1
    ELSE IF a = b THEN 0
    ELSE LET top == CHOOSE i \in 1..Len(a) :
                        a[i] # b[i] /\ \A j \in (i + 1)..Len(a) : a[j] = b[j]
         IN IF a[top] > b[top] THEN 1 ELSE -1

RECURSIVE BMulSRange(_, _, _, _, _)
\* limbs lo..hi of a * k with carry c coming in: [s, c], c the carry out
BMulSRange(a, k, lo, hi, c) ==
    IF lo = hi
    THEN [s |-> <<(a[lo] * k + c) % Base>>, c |-> (a[lo] * k + c) \div Base]
    ELSE LET Join(L, H) == [s |-> L.s \o H.s, c |-> H.c]
             Then(L) == Join(L, BMulSRange(a, k, ((lo + hi) \div 2) + 1, hi, L.c))
         IN Then(BMulSRange(a, k, lo, (lo + hi) \div 2, c))
\* a * k for 0 <= k <= Base
BMulS(a, k) ==
    LET Out(r) == r.s \o BOfInt(r.c)
    IN IF k = 0 \/ a = <<>> THEN <<>> ELSE Out(BMulSRange(a, k, 1, Len(a), 0))

\* a * Base^n
BShift(a, n) == IF a = <<>> THEN <<>> ELSE [i \in 1..n |-> 0] \o a

RECURSIVE BMulRange(_, _, _, _)
\* a times limbs lo..hi of b, in place
BMulRange(a, b, lo, hi) ==
    IF lo = hi THEN BShift(BMulS(a, b[lo]), lo - 1)
    ELSE BAdd(BMulRange(a, b, lo, (lo + hi) \div 2),
              BMulRange(a, b, ((lo + hi) \div 2) + 1, hi))
BMul(a, b) == IF a = <<>> \/ b = <<>> THEN <<>> ELSE BMulRange(a, b, 1, Len(b))

RECURSIVE BPow2(_)
BPow2(n) ==
    LET Sq(h) == BMulS(BMul(h, h), IF n % 2 = 1 THEN 2 ELSE 1)
    IN IF n = 0 THEN <<1>>
       ELSE IF n < 13 THEN BMulS(BPow2(n - 1), 2)
       ELSE Sq(BPow2(n \div 2))

\* a * 10^n
BMul10(a, n) ==
    BShift(BMulS(a, CASE n % 4 = 0 -> 1 [] n % 4 = 1 -> 10
                      [] n % 4 = 2 -> 100 [] OTHER -> 1000), n \div 4)
BPow10(n) == BMul10(<<1>>, n)

RECURSIVE QuoLimb(_, _, _, _)
\* the largest q in lo..hi with Q*q <= R (Q*lo <= R is given)
QuoLimb(R, Q, lo, hi) ==
    IF lo = hi THEN lo
    ELSE IF BCmp(BMulS(Q, (lo + hi + 1) \div 2), R) <= 0
    THEN QuoLimb(R, Q, (lo + hi + 1) \div 2, hi)
    ELSE QuoLimb(R, Q, lo, ((lo + hi + 1) \div 2) - 1)

RECURSIVE BDivRange(_, _, _, _, _)
\* long division of limbs hi..lo of N by Q, R the remainder so far:
\* [q, r], q the quotient's limbs hi..lo (the top one first)
BDivRange(N, Q, hi, lo, R) ==
    IF hi = lo
    THEN LET Step(R1, d) == [q |-> <<d>>, r |-> BSub(R1, BMulS(Q, d))]
             Down(R1) == Step(R1, QuoLimb(R1, Q, 0, Base - 1))
         IN Down(BTrim(<<N[lo]>> \o R))
    ELSE LET Join(T, B) == [q |-> T.q \o B.q, r |-> B.r]
             Then(T) == Join(T, BDivRange(N, Q, (lo + hi) \div 2, lo, T.r))
         IN Then(BDivRange(N, Q, hi, ((lo + hi) \div 2) + 1, R))
\* floor(N / Q) and N mod Q for Q > 0
BDivMod(N, Q) ==
    LET Out(d) == [q |-> BTrim([i \in 1..Len(d.q) |-> d.q[Len(d.q) + 1 - i]]),
                   r |-> d.r]
    IN IF N = <<>> THEN [q |-> <<>>, r |-> <<>>]
       ELSE Out(BDivRange(N, Q, Len(N), 1, <<>>))

\* number of decimal digits of a > 0
BDigits(a) ==
    4 * (Len(a) - 1) + (IF a[Len(a)] >= 1000 THEN 4 ELSE IF a[Len(a)] >= 100 THEN 3
                        ELSE IF a[Len(a)] >= 10 THEN 2 ELSE 1)

\* the natural written by a sequence of decimal digits, most significant first
BOfDigits(ds) ==
    LET D(i) == IF i >= 1 THEN ds[i] ELSE 0
    IN BTrim([j \in 1..((Len(ds) + 3) \div 4) |->
                 D(Len(ds) - 4 * j + 1) * 1000 + D(Len(ds) - 4 * j + 2) * 100
                 + D(Len(ds) - 4 * j + 3) * 10 + D(Len(ds) - 4 * j + 4)])

RECURSIVE DropZeros(_)
DropZeros(ds) == IF ds # <<>> /\ ds[1] = 0 THEN DropZeros(Tail(ds)) ELSE ds

\* the decimal digits of a, most significant first (<<>> for zero)
BToDigits(a) ==
    DropZeros([i \in 1..(4 * Len(a)) |->
                  LET l == a[Len(a) - ((i - 1) \div 4)]
                  IN CASE (i - 1) % 4 = 0 -> l \div 1000
                       [] (i - 1) % 4 = 1 -> (l \div 100) % 10
                       [] (i - 1) % 4 = 2 -> (l \div 10) % 10
                       [] OTHER -> l % 10])

(***************************************************************************)
(* IEEE 754 binary64: a positive double is M * 2^E with M < 2^53; normal   *)
(* doubles have M >= 2^52, subnormal ones E = MinExp                       *)
(***************************************************************************)
MinExp == -1074
MaxExp == 971
T52 == BPow2(52)

RECURSIVE Scaled(_, _, _)
\* N/Q brought into [2^52, 2^53) by powers of two, as far as MinExp allows:
\* the first N/Q is the result's N/Q times 2^E
Scaled(N, Q, E) ==
    LET Against(low) ==
            IF BCmp(N, BMulS(low, 2)) >= 0 THEN Scaled(N, BMulS(Q, 2), E + 1)
            ELSE IF E > MinExp /\ BCmp(N, low) < 0 THEN Scaled(BMulS(N, 2), Q, E - 1)
            ELSE [N |-> N, Q |-> Q, E |-> E]
    IN Against(BMul(Q, T52))

\* the double nearest to N/Q (N > 0, Q > 0), ties to the even mantissa:
\* [inf, M, E], M = <<>> for zero
RoundRat(N, Q) ==
    LET Fixed(M, E, top) ==
            IF top THEN [inf |-> E + 1 > MaxExp, M |-> T52, E |-> E + 1]
            ELSE IF M = <<>> THEN [inf |-> FALSE, M |-> <<>>, E |-> 0]
            ELSE [inf |-> E > MaxExp, M |-> M, E |-> E]
        Carried(M, E) == Fixed(M, E, BCmp(M, BMulS(T52, 2)) = 0)
        Halved(q, twice, E) ==
            Carried(IF twice > 0 \/ (twice = 0 /\ Limb(q, 1) % 2 = 1)
                    THEN BAdd(q, <<1>>) ELSE q, E)
        Divided(dm, sc) == Halved(dm.q, BCmp(BMulS(dm.r, 2), sc.Q), sc.E)
        Rounded(sc) == Divided(BDivMod(sc.N, sc.Q), sc)
        \* a first exponent from the decimal lengths, some bits too low
        From(E0) ==
            Rounded(Scaled(IF E0 >= 0 THEN N ELSE BMul(N, BPow2(0 - E0)),
                           IF E0 >= 0 THEN BMul(Q, BPow2(E0)) ELSE Q, E0))
        Least(est) == From(IF est < MinExp THEN MinExp ELSE est)
    IN Least(((33219 * (BDigits(N) - BDigits(Q) - 1)) \div 10000) - 56)

\* the double nearest to the decimal ds * 10^(-e), ds a non-empty digit
\* sequence without leading zero
DecToBin(ds, e) ==
    RoundRat(BMul10(BOfDigits(ds), IF e <= 0 THEN 0 - e ELSE 0),
             BPow10(IF e <= 0 THEN 0 ELSE e))

RECURSIVE StripZeros(_, _)
\* the decimal ds * 10^(-e) without trailing zeros in ds
StripZeros(ds, e) ==
    IF ds # <<>> /\ ds[Len(ds)] = 0 THEN StripZeros(SubSeq(ds, 1, Len(ds) - 1), e - 1)
    ELSE [m |-> ds, e |-> IF ds = <<>> THEN 0 ELSE e]

RECURSIVE Increment(_)
\* the digit sequence of ds + 1
Increment(ds) ==
    IF ds = <<>> THEN <<1>>
    ELSE IF ds[Len(ds)] < 9 THEN [ds EXCEPT ![Len(ds)] = @ + 1]
    ELSE Append(Increment(SubSeq(ds, 1, Len(ds) - 1)), 0)

\* repr(): the shortest decimal that float() reads back as the double b, the
\* nearest to b among the shortest; Wd are the first 19 or 20 digits of b,
\* Wd * 10^(-K) <= b, exact iff b has no further digits
RECURSIVE ReprFrom(_, _, _, _, _)
ReprFrom(b, Wd, K, exact, n) ==
    LET fl == SubSeq(Wd, 1, n)
        rest == SubSeq(Wd, n + 1, Len(Wd))
        e == K - (Len(Wd) - n)
        half == IF rest[1] > 5 THEN 1
                ELSE IF rest[1] < 5 THEN -1
                ELSE IF exact /\ \A i \in 2..Len(rest) : rest[i] = 0 THEN 0
                ELSE 1
        \* which of fl and fl + 1 read back as b
        Chosen(ok) ==
            IF n < 17 /\ ~ok[1] /\ ~ok[2] THEN ReprFrom(b, Wd, K, exact, n + 1)
            ELSE StripZeros(IF ok[1] /\ (~ok[2] \/ half < 0
                                         \/ (half = 0 /\ fl[n] % 2 = 0))
                            THEN fl ELSE Increment(fl), e)
    IN IF exact /\ \A i \in 1..Len(rest) : rest[i] = 0 THEN StripZeros(fl, e)
       ELSE Chosen([c \in 1..2 |->
                       DecToBin(IF c = 1 THEN fl ELSE Increment(fl), e) = b])

Repr(b) ==
    LET N == IF b.E >= 0 THEN BMul(b.M, BPow2(b.E)) ELSE b.M
        Q == IF b.E >= 0 THEN <<1>> ELSE BPow2(0 - b.E)
        From(dm, K) == ReprFrom(b, BToDigits(dm.q), K, dm.r = <<>>, 1)
        Shifted(K) == From(BDivMod(BMul10(N, IF K >= 0 THEN K ELSE 0),
                                   BMul10(Q, IF K >= 0 THEN 0 ELSE 0 - K)), K)
    IN Shifted(19 - (BDigits(N) - BDigits(Q)))

f_nan == [k |-> "nan", s |-> 1, m |-> <<>>, e |-> 0]
f_inf(sgn) == [k |-> "inf", s |-> sgn, m |-> <<>>, e |-> 0]
f_zero(sgn) == [k |-> "fin", s |-> sgn, m |-> <<>>, e |-> 0]

\* the double nearest to sgn * ds * 10^(-e), ds any digit sequence: a float
\* is written as its repr(), [k |-> "fin", s, m, e] for s * m * 10^(-e) with
\* m a digit sequence without leading or trailing zero.  A decimal of at
\* most 15 significant digits in the range of the normal doubles is the
\* repr() of the double nearest to it (DBL_DIG)
DecFloat(sgn, ds, e) ==
    LET Of(d) ==
            LET p == Len(d.m) - d.e - 1
                Bin(b) == IF b.inf THEN f_inf(sgn)
                          ELSE IF b.M = <<>> THEN f_zero(sgn)
                          ELSE [k |-> "fin", s |-> sgn] @@ Repr(b)
            IN IF d.m = <<>> THEN f_zero(sgn)
               ELSE IF p >= 310 THEN f_inf(sgn)
               ELSE IF p <= -326 THEN f_zero(sgn)
               ELSE IF Len(d.m) <= 15 /\ p >= -307 /\ p <= 307
               THEN [k |-> "fin", s |-> sgn, m |-> d.m, e |-> d.e]
               ELSE Bin(DecToBin(d.m, d.e))
    IN Of(StripZeros(DropZeros(ds), e))

RECURSIVE IntDigits(_)
\* the decimal digits of n > 0, most significant first
IntDigits(n) == IF n = 0 THEN <<>> ELSE Append(IntDigits(n \div 10), n % 10)

\* the float written m * 10^(-e), for an integer m of at most 9 digits and
\* |e| <= 300
Flt(m, e) ==
    LET Of(d) == [k |-> "fin", s |-> IF m < 0 THEN -1 ELSE 1, m |-> d.m, e |-> d.e]
    IN Of(StripZeros(IntDigits(IF m < 0 THEN 0 - m ELSE m), e))

Lower(c) == IF c >= 65 /\ c <= 90 THEN c + 32 ELSE c
LowerStr(s) == [i \in 1..Len(s) |-> Lower(s[i])]

\* index of the first element of s in set S, 0 when there is none
FirstIn(s, S) ==
    IF \E i \in 1..Len(s) : s[i] \in S
    THEN CHOOSE i \in 1..Len(s) : s[i] \in S /\ \A j \in 1..(i - 1) : s[j] \notin S
    ELSE 0

RECURSIVE CountDigits(_)
CountDigits(s) ==
    IF s = <<>> THEN 0
    ELSE (IF Head(s) = 95 THEN 0 ELSE 1) + CountDigits(Tail(s))

\* the digits of a digit run, its underscores left out
DigitsOf(s) ==
    LET Vals(d) == [i \in 1..Len(d) |-> DigitVal(d[i])]
    IN Vals(SelectSeq(s, LAMBDA c : c # 95))

\* float(s) on a literal split into sign, integer part ip, fraction fp and
\* exponent expo (hasExp: an 'e' or 'E' was present); an exponent of more
\* than six digits takes every literal shorter than 10^5 characters beyond
\* the doubles, as the exponent 10^6 does
FloatOfParts(sgn, ip, fp, hasExp, expo) ==
    LET mantOK == /\ (ip = <<>> \/ DigitRunOK(ip, FALSE))
                  /\ (fp = <<>> \/ DigitRunOK(fp, FALSE))
                  /\ (ip # <<>> \/ fp # <<>>)
        expoOK == ~hasExp \/ DigitRunOK(Unsigned(expo), FALSE)
        expoVal == IF ~hasExp THEN 0
                   ELSE IF Len(DropZeros(DigitsOf(Unsigned(expo)))) > 6
                   THEN SignOf(expo) * 1000000
                   ELSE SignOf(expo) * DigitRunVal(Unsigned(expo), 10, 0)
    IN IF mantOK /\ expoOK
       THEN [ok |-> TRUE,
             v |-> DecFloat(sgn, DigitsOf(ip) \o DigitsOf(fp),
                            CountDigits(fp) - expoVal)]
       ELSE [ok |-> FALSE, v |-> f_nan]

\* the mantissa split at its '.'
FloatOfMantissa(sgn, mant, hasExp, expo) ==
    LET dPos == FirstIn(mant, {46})
    IN FloatOfParts(sgn,
                    IF dPos = 0 THEN mant ELSE SubSeq(mant, 1, dPos - 1),
                    IF dPos = 0 THEN <<>> ELSE SliceFrom(mant, dPos),
                    hasExp, expo)

\* the unsigned literal: inf, infinity, nan, or a decimal split at its 'e'
FloatOfBody(sgn, body) ==
    LET ePos == FirstIn(body, {69, 101})
    IN IF LowerStr(body) \in {<<105, 110, 102>>,
                              <<105, 110, 102, 105, 110, 105, 116, 121>>}
       THEN [ok |-> TRUE, v |-> f_inf(sgn)]
       ELSE IF LowerStr(body) = <<110, 97, 110>>
       THEN [ok |-> TRUE, v |-> f_nan]
       ELSE FloatOfMantissa(sgn,
                            IF ePos = 0 THEN body ELSE SubSeq(body, 1, ePos - 1),
                            ePos # 0,
                            IF ePos = 0 THEN <<>> ELSE SliceFrom(body, ePos))

\* float(s): [ok |-> FALSE] stands for ValueError
ParseFloat(s) == FloatOfBody(SignOf(Strip(s)), Unsigned(Strip(s)))

\* floor(|f|) of a finite float with at most 15 digits before the point, a
\* natural: a double below 2^53 and its repr() have the same integer part
IntPartShort(f) ==
    IF Len(f.m) - f.e <= 0 THEN <<>>
    ELSE IF f.e >= 0 THEN BOfDigits(SubSeq(f.m, 1, Len(f.m) - f.e))
    ELSE BMul10(BOfDigits(f.m), 0 - f.e)

\* floor(|f|) of a finite float, a natural: from 10^15 on it is read off the
\* double M * 2^E itself, whose digits past the 17th repr() does not show
IntPart(f) ==
    LET Whole(b) == IF b.E >= 0 THEN BMul(b.M, BPow2(IF b.E >= 0 THEN b.E ELSE 0))
                    ELSE BDivMod(b.M, BPow2(IF b.E >= 0 THEN 0 ELSE 0 - b.E)).q
    IN IF Len(f.m) - f.e <= 15 THEN IntPartShort(f)
       ELSE Whole(DecToBin(f.m, f.e))

\* Python's f >= n for a float f and a non-negative integer n < 10^8
FloatGE(f, n) ==
    IF f.k = "nan" THEN FALSE
    ELSE IF f.k = "inf" THEN f.s > 0
    ELSE IF f.m = <<>> THEN n = 0
    ELSE IF f.s < 0 THEN FALSE
    ELSE Len(f.m) - f.e > 15 \/ BCmp(IntPartShort(f), BOfInt(n)) >= 0

\* Python's `a in b` for strings: a is a contiguous substring of b
IsSubstring(a, b) ==
    \E i \in 0..(Len(b) - Len(a)) : SubSeq(b, i + 1, i + Len(a)) = a

(***************************************************************************)
(* The MicropyGPS object (src/micropyGPS.py)                               *)
(***************************************************************************)

SENTENCE_LIMIT == 90
NO_FIX == 1
FIX_2D == 2
FIX_3D == 3
CLEAR_DATE == <<0, 0, 0>>
CLEAR_TIME == <<0, 0, Flt(0, 0)>>
\* (0, 0.0, 'N') and (0, 0.0, 'W')
CLEAR_LAT == <<0, Flt(0, 0), <<78>>>>
CLEAR_LON == <<0, Flt(0, 0), <<87>>>>

\* talker ids and sentence types of the dispatch table
GP == <<71, 80>>
GL == <<71, 76>>
GN == <<71, 78>>
RMC == <<82, 77, 67>>
GGA == <<71, 71, 65>>
VTG == <<86, 84, 71>>
GSA == <<71, 83, 65>>
GSV == <<71, 83, 86>>
GLL == <<71, 76, 76>>
ZDA == <<90, 68, 65>>

\* the class attribute supported_sentences: sentence id -> decoder
supported_sentences ==
    LET keys == { GP \o RMC, GL \o RMC, GP \o GGA, GL \o GGA, GP \o VTG,
                  GL \o VTG, GP \o GSA, GL \o GSA, GP \o GSV, GL \o GSV,
                  GP \o GLL, GL \o GLL, GN \o GGA, GN \o RMC, GN \o VTG,
                  GN \o GLL, GN \o GSA, GP \o ZDA }
    IN [key \in keys |->
          LET type == SubSeq(key, 3, 5)
          IN IF type = RMC THEN "gprmc"
             ELSE IF type = GGA THEN "gpgga"
             ELSE IF type = VTG THEN "gpvtg"
             ELSE IF type = GSA THEN "gpgsa"
             ELSE IF type = GSV THEN "gpgsv"
             ELSE IF type = GLL THEN "gpgll"
             ELSE "gpzda"]

\* MicropyGPS.__init__(local_offset=0, location_formatting='ddm', century=None)
NewMicropyGPS ==
    [ sentence_active |-> FALSE,
      active_segment |-> 0,
      process_crc |-> FALSE,
      gps_segments |-> <<>>,
      buf |-> <<>>,
      crc_xor |-> 0,
      char_count |-> 0,
      fix_time |-> 0,
      crc_fails |-> 0,
      clean_sentences |-> 0,
      parsed_sentences |-> 0,
      log_handle |-> <<>>,
      log_en |-> FALSE,
      timestamp |-> CLEAR_TIME,
      date |-> CLEAR_DATE,
      century |-> <<>>,
      local_offset |-> 0,
      latitude |-> CLEAR_LAT,
      longitude |-> CLEAR_LON,
      speed |-> Flt(0, 0),
      course |-> Flt(0, 0),
      altitude |-> Flt(0, 0),
      geoid_height |-> Flt(0, 0),
      satellites_in_view |-> 0,
      satellites_in_use |-> 0,
      satellites_used |-> <<>>,
      last_sv_sentence |-> 0,
      total_sv_sentences |-> 0,
      satellite_data |-> <<>>,
      hdop |-> f_nan,
      pdop |-> f_nan,
      vdop |-> f_nan,
      valid |-> FALSE,
      fix_stat |-> 0,
      fix_type |-> NO_FIX,
      supported |-> supported_sentences ]

\* a decoder's outcome: the object as the decoder left it and "True", "False"
\* (its return value) or "IndexError" (the exception that escaped it)
Ret(g, r) == [g |-> g, r |-> r]
NSeg(g) == Len(g.gps_segments)
\* self.gps_segments[i]; the caller has checked i < NSeg(g)
Seg(g, i) == g.gps_segments[i + 1]

\* new_fix_time(): fix_time = get_ticks(), the tick `now` read from the clock
new_fix_time(g, now) == [g EXCEPT !.fix_time = now]

\* unset_satellite_data_updated()
unset_satellite_data_updated(g) == [g EXCEPT !.last_sv_sentence = 0]

\* __parse_time: [g, ok]
parse_time(g, utc_string, float) ==
    IF utc_string = <<>>
    THEN [g |-> [g EXCEPT !.timestamp = CLEAR_TIME], ok |-> TRUE]
    ELSE LET hours == ParseInt(Slice(utc_string, 0, 2))
             minutes == ParseInt(Slice(utc_string, 2, 4))
             seconds == float[SliceFrom(utc_string, 4)]
         IN IF ~(hours.ok /\ minutes.ok /\ seconds.ok)
            THEN [g |-> g, ok |-> FALSE]
            ELSE IF FloatGE(seconds.v, 60) \/ minutes.v >= 60
            THEN [g |-> g, ok |-> FALSE]
            ELSE [g |-> [g EXCEPT !.timestamp =
                           <<(hours.v + g.local_offset) % 24, minutes.v, seconds.v>>],
                  ok |-> TRUE]

\* __parse_lat_lon: [g, ok]
parse_lat_lon(g, lat_str, lat_hemi, lon_str, lon_hemi, float) ==
    IF ~IsSubstring(lat_hemi, <<78, 83>>) \/ ~IsSubstring(lon_hemi, <<69, 87>>)
    THEN [g |-> g, ok |-> FALSE]
    ELSE LET lat_degs == ParseInt(Slice(lat_str, 0, 2))
             lat_mins == float[SliceFrom(lat_str, 2)]
             lon_degs == ParseInt(Slice(lon_str, 0, 3))
             lon_mins == float[SliceFrom(lon_str, 3)]
         IN IF ~(lat_degs.ok /\ lat_mins.ok /\ lon_degs.ok /\ lon_mins.ok)
            THEN [g |-> g, ok |-> FALSE]
            ELSE [g |-> [g EXCEPT !.latitude = <<lat_degs.v, lat_mins.v, lat_hemi>>,
                                  !.longitude = <<lon_degs.v, lon_mins.v, lon_hemi>>],
                  ok |-> TRUE]

\* the date stamp of gprmc (lines 273-283): [g, ok]
rmc_date(g) ==
    IF NSeg(g) <= 9 THEN [g |-> g, ok |-> FALSE]
    ELSE LET date_string == Seg(g, 9)
             day == ParseInt(Slice(date_string, 0, 2))
             month == ParseInt(Slice(date_string, 2, 4))
             year == ParseInt(Slice(date_string, 4, 6))
         IN IF date_string = <<>>
            THEN [g |-> [g EXCEPT !.date = CLEAR_DATE], ok |-> TRUE]
            ELSE IF ~(day.ok /\ month.ok /\ year.ok)
            THEN [g |-> g, ok |-> FALSE]
            ELSE [g |-> [g EXCEPT !.date = <<day.v, month.v, year.v>>], ok |-> TRUE]

\* speed and course of gprmc (lines 293-316), after time, date and position
rmc_motion(g, now, float) ==
    LET spd_knt == float[Seg(g, 7)]
        course == IF Seg(g, 8) = <<>> THEN [ok |-> TRUE, v |-> Flt(0, 0)]
                  ELSE float[Seg(g, 8)]
    IN IF ~spd_knt.ok \/ ~course.ok THEN Ret(g, "False")
       ELSE Ret(new_fix_time([g EXCEPT !.speed = spd_knt.v,
                                       !.course = course.v,
                                       !.valid = TRUE], now), "True")

gprmc(g, now, float) ==
    LET Positioned(p) ==
            IF ~p.ok THEN Ret(p.g, "False") ELSE rmc_motion(p.g, now, float)
        Dated(d) ==
            IF ~d.ok THEN Ret(d.g, "False")
            ELSE Positioned(parse_lat_lon(d.g, Seg(g, 3), Seg(g, 4),
                                          Seg(g, 5), Seg(g, 6), float))
        Timed(t) ==
            IF ~t.ok THEN Ret(t.g, "False") ELSE Dated(rmc_date(t.g))
    IN IF NSeg(g) <= 2 THEN Ret(g, "False")
       ELSE IF Seg(g, 2) = <<65>> THEN Timed(parse_time(g, Seg(g, 1), float))
       ELSE Ret([g EXCEPT !.latitude = CLEAR_LAT,
                          !.longitude = CLEAR_LON,
                          !.speed = Flt(0, 0),
                          !.course = Flt(0, 0),
                          !.valid = FALSE], "True")

\* gpgll that also zeroes speed and course on an invalid status
gpgll_clearing_motion(g, now, float) ==
    LET Positioned(p) ==
            IF ~p.ok THEN Ret(p.g, "False")
            ELSE Ret(new_fix_time([p.g EXCEPT !.valid = TRUE], now), "True")
        Timed(t) ==
            IF ~t.ok THEN Ret(t.g, "False")
            ELSE Positioned(parse_lat_lon(t.g, Seg(g, 1), Seg(g, 2),
                                          Seg(g, 3), Seg(g, 4), float))
    IN IF NSeg(g) <= 6 THEN Ret(g, "False")
       ELSE IF Seg(g, 6) = <<65>> THEN Timed(parse_time(g, Seg(g, 5), float))
       ELSE Ret([g EXCEPT !.latitude = CLEAR_LAT,
                          !.longitude = CLEAR_LON,
                          !.speed = Flt(0, 0),
                          !.course = Flt(0, 0),
                          !.valid = FALSE], "True")

gpgll(g, now, float) ==
    LET Positioned(p) ==
            IF ~p.ok THEN Ret(p.g, "False")
            ELSE Ret(new_fix_time([p.g EXCEPT !.valid = TRUE], now), "True")
        Timed(t) ==
            IF ~t.ok THEN Ret(t.g, "False")
            ELSE Positioned(parse_lat_lon(t.g, Seg(g, 1), Seg(g, 2),
                                          Seg(g, 3), Seg(g, 4), float))
    IN IF NSeg(g) <= 6 THEN Ret(g, "False")
       ELSE IF Seg(g, 6) = <<65>> THEN Timed(parse_time(g, Seg(g, 5), float))
       ELSE Ret([g EXCEPT !.latitude = CLEAR_LAT,
                          !.longitude = CLEAR_LON,
                          !.valid = FALSE], "True")

gpvtg(g, now, float) ==
    IF NSeg(g) <= 1 THEN Ret(g, "False")
    ELSE LET course == IF Seg(g, 1) # <<>> THEN float[Seg(g, 1)]
                       ELSE [ok |-> TRUE, v |-> Flt(0, 0)]
         IN IF ~course.ok \/ NSeg(g) <= 5 THEN Ret(g, "False")
            ELSE LET spd_knt == IF Seg(g, 5) # <<>> THEN float[Seg(g, 5)]
                                ELSE [ok |-> TRUE, v |-> Flt(0, 0)]
                 IN IF ~spd_knt.ok THEN Ret(g, "False")
                    ELSE Ret([g EXCEPT !.speed = spd_knt.v,
                                       !.course = course.v], "True")

\* altitude and geoid height of gpgga (lines 422-435), after the position:
\* only ValueError is caught there
gga_altitude(g, now, float) ==
    IF NSeg(g) <= 9 THEN Ret(g, "IndexError")
    ELSE LET altitude == float[Seg(g, 9)]
         IN IF ~altitude.ok
            THEN Ret(new_fix_time([g EXCEPT !.altitude = Flt(0, 0),
                                            !.geoid_height = Flt(0, 0)], now), "True")
            ELSE IF NSeg(g) <= 11 THEN Ret(g, "IndexError")
            ELSE LET geoid_height == float[Seg(g, 11)]
                 IN IF ~geoid_height.ok
                    THEN Ret(new_fix_time([g EXCEPT !.altitude = Flt(0, 0),
                                                    !.geoid_height = Flt(0, 0)], now),
                             "True")
                    ELSE Ret(new_fix_time([g EXCEPT !.altitude = altitude.v,
                                                    !.geoid_height = geoid_height.v],
                                          now), "True")

\* gpgga that reads the position whatever the fix status is
gpgga_locating_always(g, now, float) ==
    LET hdop == IF NSeg(g) <= 8 THEN f_nan
                ELSE IF float[Seg(g, 8)].ok THEN float[Seg(g, 8)].v
                ELSE f_nan
        Finish(located, satellites_in_use, fix_stat) ==
            Ret([located EXCEPT !.satellites_in_use = satellites_in_use,
                                !.hdop = hdop,
                                !.fix_stat = fix_stat], "True")
        Measured(a, satellites_in_use, fix_stat) ==
            IF a.r # "True" THEN a ELSE Finish(a.g, satellites_in_use, fix_stat)
        Positioned(p, satellites_in_use, fix_stat) ==
            IF ~p.ok THEN Ret(p.g, "False")
            ELSE Measured(gga_altitude(p.g, now, float), satellites_in_use, fix_stat)
        Timed(t, satellites_in_use, fix_stat) ==
            IF ~t.ok THEN Ret(t.g, "False")
            ELSE IF TRUE
            THEN Positioned(parse_lat_lon(t.g, Seg(g, 2), Seg(g, 3),
                                          Seg(g, 4), Seg(g, 5), float),
                            satellites_in_use, fix_stat)
            ELSE Finish(t.g, satellites_in_use, fix_stat)
        Counted(satellites_in_use, fix_stat) ==
            IF ~satellites_in_use.ok \/ ~fix_stat.ok THEN Ret(g, "False")
            ELSE Timed(parse_time(g, Seg(g, 1), float), satellites_in_use.v, fix_stat.v)
    IN IF NSeg(g) <= 7 THEN Ret(g, "False")
       ELSE Counted(ParseInt(Seg(g, 7)), ParseInt(Seg(g, 6)))

gpgga(g, now, float) ==
    LET hdop == IF NSeg(g) <= 8 THEN f_nan
                ELSE IF float[Seg(g, 8)].ok THEN float[Seg(g, 8)].v
                ELSE f_nan
        Finish(located, satellites_in_use, fix_stat) ==
            Ret([located EXCEPT !.satellites_in_use = satellites_in_use,
                                !.hdop = hdop,
                                !.fix_stat = fix_stat], "True")
        Measured(a, satellites_in_use, fix_stat) ==
            IF a.r # "True" THEN a ELSE Finish(a.g, satellites_in_use, fix_stat)
        Positioned(p, satellites_in_use, fix_stat) ==
            IF ~p.ok THEN Ret(p.g, "False")
            ELSE Measured(gga_altitude(p.g, now, float), satellites_in_use, fix_stat)
        Timed(t, satellites_in_use, fix_stat) ==
            IF ~t.ok THEN Ret(t.g, "False")
            ELSE IF fix_stat # 0
            THEN Positioned(parse_lat_lon(t.g, Seg(g, 2), Seg(g, 3),
                                          Seg(g, 4), Seg(g, 5), float),
                            satellites_in_use, fix_stat)
            ELSE Finish(t.g, satellites_in_use, fix_stat)
        Counted(satellites_in_use, fix_stat) ==
            IF ~satellites_in_use.ok \/ ~fix_stat.ok THEN Ret(g, "False")
            ELSE Timed(parse_time(g, Seg(g, 1), float), satellites_in_use.v, fix_stat.v)
    IN IF NSeg(g) <= 7 THEN Ret(g, "False")
       ELSE Counted(ParseInt(Seg(g, 7)), ParseInt(Seg(g, 6)))

RECURSIVE gsa_prns(_, _, _)
\* the PRN loop of gpgsa (lines 458-468): [r, sats_used], r = "ok" when the
\* loop ends normally or by break
gsa_prns(g, sats, sats_used) ==
    IF sats >= 12 THEN [r |-> "ok", sats_used |-> sats_used]
    ELSE IF NSeg(g) <= 3 + sats THEN [r |-> "IndexError", sats_used |-> sats_used]
    ELSE LET sat_number_str == Seg(g, 3 + sats)
             sat_number == ParseInt(sat_number_str)
         IN IF sat_number_str = <<>> THEN [r |-> "ok", sats_used |-> sats_used]
            ELSE IF ~sat_number.ok THEN [r |-> "False", sats_used |-> sats_used]
            ELSE gsa_prns(g, sats + 1, Append(sats_used, sat_number.v))

\* PDOP, HDOP, VDOP of gpgsa (lines 471-476), read in this order:
\* [r, pdop, hdop, vdop]
gsa_dops(g, float) ==
    LET bad(r) == [r |-> r, pdop |-> f_nan, hdop |-> f_nan, vdop |-> f_nan]
    IN IF NSeg(g) <= 15 THEN bad("IndexError")
       ELSE IF ~float[Seg(g, 15)].ok THEN bad("False")
       ELSE IF NSeg(g) <= 16 THEN bad("IndexError")
       ELSE IF ~float[Seg(g, 16)].ok THEN bad("False")
       ELSE IF NSeg(g) <= 17 THEN bad("IndexError")
       ELSE IF ~float[Seg(g, 17)].ok THEN bad("False")
       ELSE [r |-> "ok", pdop |-> float[Seg(g, 15)].v,
             hdop |-> float[Seg(g, 16)].v, vdop |-> float[Seg(g, 17)].v]

\* gpgsa that stores the fix type as soon as it is read
gpgsa_storing_fix_type(g, now, float) ==
    LET Finish(fix_type, sats_used, dops) ==
            IF dops.r # "ok" THEN Ret([g EXCEPT !.fix_type = fix_type], dops.r)
            ELSE Ret([(IF fix_type > NO_FIX THEN new_fix_time(g, now) ELSE g)
                         EXCEPT !.fix_type = fix_type,
                                !.satellites_used = sats_used,
                                !.hdop = dops.hdop,
                                !.vdop = dops.vdop,
                                !.pdop = dops.pdop], "True")
        Listed(fix_type, prns) ==
            IF prns.r # "ok" THEN Ret([g EXCEPT !.fix_type = fix_type], prns.r)
            ELSE Finish(fix_type, prns.sats_used, gsa_dops(g, float))
        Typed(fix_type) ==
            IF ~fix_type.ok THEN Ret(g, "False")
            ELSE Listed(fix_type.v, gsa_prns(g, 0, <<>>))
    IN IF NSeg(g) <= 2 THEN Ret(g, "IndexError")
       ELSE Typed(ParseInt(Seg(g, 2)))

\* gpgsa that appends to the list of satellites used instead of replacing it
gpgsa_accumulating(g, now, float) ==
    LET Finish(fix_type, sats_used, dops) ==
            IF dops.r # "ok" THEN Ret(g, dops.r)
            ELSE Ret([(IF fix_type > NO_FIX THEN new_fix_time(g, now) ELSE g)
                         EXCEPT !.fix_type = fix_type,
                                !.satellites_used = @ \o sats_used,
                                !.hdop = dops.hdop,
                                !.vdop = dops.vdop,
                                !.pdop = dops.pdop], "True")
        Listed(fix_type, prns) ==
            IF prns.r # "ok" THEN Ret(g, prns.r)
            ELSE Finish(fix_type, prns.sats_used, gsa_dops(g, float))
        Typed(fix_type) ==
            IF ~fix_type.ok THEN Ret(g, "False")
            ELSE Listed(fix_type.v, gsa_prns(g, 0, <<>>))
    IN IF NSeg(g) <= 2 THEN Ret(g, "IndexError")
       ELSE Typed(ParseInt(Seg(g, 2)))

gpgsa(g, now, float) ==
    LET Finish(fix_type, sats_used, dops) ==
            IF dops.r # "ok" THEN Ret(g, dops.r)
            ELSE Ret([(IF fix_type > NO_FIX THEN new_fix_time(g, now) ELSE g)
                         EXCEPT !.fix_type = fix_type,
                                !.satellites_used = sats_used,
                                !.hdop = dops.hdop,
                                !.vdop = dops.vdop,
                                !.pdop = dops.pdop], "True")
        Listed(fix_type, prns) ==
            IF prns.r # "ok" THEN Ret(g, prns.r)
            ELSE Finish(fix_type, prns.sats_used, gsa_dops(g, float))
        Typed(fix_type) ==
            IF ~fix_type.ok THEN Ret(g, "False")
            ELSE Listed(fix_type.v, gsa_prns(g, 0, <<>>))
    IN IF NSeg(g) <= 2 THEN Ret(g, "IndexError")
       ELSE Typed(ParseInt(Seg(g, 2)))

\* int(self.gps_segments[i]) under `except (ValueError, IndexError)`: None on either
IntOrNone(g, i) ==
    IF NSeg(g) <= i THEN <<>>
    ELSE IF ParseInt(Seg(g, i)).ok THEN <<ParseInt(Seg(g, i)).v>>
    ELSE <<>>

\* dict.update: the entries of b override those of a
DictUpdate(a, b) ==
    [key \in (DOMAIN a) \cup (DOMAIN b) |-> IF key \in DOMAIN b THEN b[key] ELSE a[key]]

RECURSIVE gsv_sats(_, _, _, _)
\* the satellite loop of gpgsv, for sats in range(4, sat_segment_limit, 4)
\* (lines 516-546): [r, satellite_dict]
gsv_sats(g, sats, sat_segment_limit, satellite_dict) ==
    IF sats >= sat_segment_limit THEN [r |-> "ok", satellite_dict |-> satellite_dict]
    ELSE IF NSeg(g) <= sats THEN [r |-> "False", satellite_dict |-> satellite_dict]
    ELSE IF Seg(g, sats) = <<>> THEN [r |-> "ok", satellite_dict |-> satellite_dict]
    ELSE LET sat_id == ParseInt(Seg(g, sats))
             entry == <<IntOrNone(g, sats + 1), IntOrNone(g, sats + 2),
                        IntOrNone(g, sats + 3)>>
         IN IF ~sat_id.ok THEN [r |-> "False", satellite_dict |-> satellite_dict]
            ELSE gsv_sats(g, sats + 4, sat_segment_limit,
                          DictUpdate(satellite_dict, [key \in {sat_id.v} |-> entry]))

\* gpgsv without the replacement a sentence of index 1 makes (line 556)
gpgsv_always_merging(g, now) ==
    LET num_sv_sentences == ParseInt(Seg(g, 1))
        current_sv_sentence == ParseInt(Seg(g, 2))
        sats_in_view == ParseInt(Seg(g, 3))
        sat_segment_limit ==
            IF num_sv_sentences.v = current_sv_sentence.v
            THEN (sats_in_view.v - ((num_sv_sentences.v - 1) * 4)) * 5
            ELSE 20
        loop == gsv_sats(g, 4, sat_segment_limit, <<>>)
    IN IF NSeg(g) <= 1 THEN Ret(g, "IndexError")
       ELSE IF ~num_sv_sentences.ok THEN Ret(g, "False")
       ELSE IF NSeg(g) <= 2 THEN Ret(g, "IndexError")
       ELSE IF ~current_sv_sentence.ok THEN Ret(g, "False")
       ELSE IF NSeg(g) <= 3 THEN Ret(g, "IndexError")
       ELSE IF ~sats_in_view.ok THEN Ret(g, "False")
       ELSE IF loop.r # "ok" THEN Ret(g, loop.r)
       ELSE Ret([g EXCEPT !.total_sv_sentences = num_sv_sentences.v,
                          !.last_sv_sentence = current_sv_sentence.v,
                          !.satellites_in_view = sats_in_view.v,
                          !.satellite_data =
                              DictUpdate(@, loop.satellite_dict)], "True")

gpgsv(g, now) ==
    LET num_sv_sentences == ParseInt(Seg(g, 1))
        current_sv_sentence == ParseInt(Seg(g, 2))
        sats_in_view == ParseInt(Seg(g, 3))
        sat_segment_limit ==
            IF num_sv_sentences.v = current_sv_sentence.v
            THEN (sats_in_view.v - ((num_sv_sentences.v - 1) * 4)) * 5
            ELSE 20
        loop == gsv_sats(g, 4, sat_segment_limit, <<>>)
    IN IF NSeg(g) <= 1 THEN Ret(g, "IndexError")
       ELSE IF ~num_sv_sentences.ok THEN Ret(g, "False")
       ELSE IF NSeg(g) <= 2 THEN Ret(g, "IndexError")
       ELSE IF ~current_sv_sentence.ok THEN Ret(g, "False")
       ELSE IF NSeg(g) <= 3 THEN Ret(g, "IndexError")
       ELSE IF ~sats_in_view.ok THEN Ret(g, "False")
       ELSE IF loop.r # "ok" THEN Ret(g, loop.r)
       ELSE Ret([g EXCEPT !.total_sv_sentences = num_sv_sentences.v,
                          !.last_sv_sentence = current_sv_sentence.v,
                          !.satellites_in_view = sats_in_view.v,
                          !.satellite_data =
                              IF current_sv_sentence.v = 1 THEN loop.satellite_dict
                              ELSE DictUpdate(@, loop.satellite_dict)], "True")

\* gpzda that stores whatever century the sentence carries
gpzda_overwriting_century(g, now, float) ==
    LET day == ParseInt(Seg(g, 2))
        month == ParseInt(Seg(g, 3))
        str_year == Seg(g, 4)
        century == ParseInt(Slice(str_year, 0, 2))
        year == ParseInt(Slice(str_year, 2, 4))
        dateOK == /\ NSeg(g) > 2 /\ day.ok
                  /\ NSeg(g) > 3 /\ month.ok
                  /\ NSeg(g) > 4 /\ century.ok /\ year.ok
        t == parse_time(g, Seg(g, 1), float)
    IN IF ~dateOK THEN Ret([g EXCEPT !.date = CLEAR_DATE], "False")
       ELSE IF ~t.ok THEN Ret(t.g, "False")
       ELSE Ret([t.g EXCEPT !.century = <<century.v>>,
                            !.date = <<day.v, month.v, year.v>>], "True")

gpzda(g, now, float) ==
    LET day == ParseInt(Seg(g, 2))
        month == ParseInt(Seg(g, 3))
        str_year == Seg(g, 4)
        century == ParseInt(Slice(str_year, 0, 2))
        year == ParseInt(Slice(str_year, 2, 4))
        dateOK == /\ NSeg(g) > 2 /\ day.ok
                  /\ NSeg(g) > 3 /\ month.ok
                  /\ NSeg(g) > 4 /\ century.ok /\ year.ok
        t == parse_time(g, Seg(g, 1), float)
    IN IF ~dateOK THEN Ret([g EXCEPT !.date = CLEAR_DATE], "False")
       ELSE IF ~t.ok THEN Ret(t.g, "False")
       ELSE Ret([t.g EXCEPT !.century =
                                IF @ = <<>> \/ @ = <<century.v - 1>>
                                THEN <<century.v>> ELSE @,
                            !.date = <<day.v, month.v, year.v>>], "True")

\* self.supported_sentences[key](self). The decoders and their helpers take
\* Python's builtin float as the function `float` from strings to [ok, v].
Decode(g, key, now) ==
    LET decoder == g.supported[key]
        Called(float) ==
            IF decoder = "gprmc" THEN gprmc(g, now, float)
            ELSE IF decoder = "gpgga" THEN gpgga(g, now, float)
            ELSE IF decoder = "gpvtg" THEN gpvtg(g, now, float)
            ELSE IF decoder = "gpgsa" THEN gpgsa(g, now, float)
            ELSE IF decoder = "gpgsv" THEN gpgsv(g, now)
            ELSE IF decoder = "gpgll" THEN gpgll(g, now, float)
            ELSE gpzda(g, now, float)
    IN Called([s \in Seq(Nat) |-> ParseFloat(s)])

\* start_logging: open(target_file, 'w' or 'a') succeeded; `existing` is what
\* the file held before (kept by mode 'a', truncated by mode 'w')
start_logging(g, target_file, mode, existing) ==
    [g EXCEPT !.log_handle = <<[name |-> target_file, closed |-> FALSE,
                                data |-> IF mode = "new" THEN <<>> ELSE existing]>>,
              !.log_en = TRUE]

\* stop_logging: with no handle the AttributeError is caught and log_en is kept
stop_logging(g) ==
    IF g.log_handle = <<>> THEN g
    ELSE [g EXCEPT !.log_handle = <<[@[1] EXCEPT !.closed = TRUE]>>,
                   !.log_en = FALSE]

\* write_log: [g, exc]; only TypeError is caught, so a missing handle
\* (AttributeError) or a closed one (ValueError) escapes
write_log(g, log_string) ==
    IF g.log_handle = <<>> THEN [g |-> g, exc |-> "AttributeError"]
    ELSE IF g.log_handle[1].closed THEN [g |-> g, exc |-> "ValueError"]
    ELSE [g |-> [g EXCEPT !.log_handle =
                    <<[@[1] EXCEPT !.data = Append(@, log_string)]>>],
          exc |-> ""]

\* new_sentence that leaves char_count running
new_sentence_keeping_count(g) ==
    [g EXCEPT !.gps_segments = <<>>,
              !.active_segment = 0,
              !.crc_xor = 0,
              !.sentence_active = TRUE,
              !.process_crc = TRUE,
              !.buf = <<>>]

\* new_sentence that keeps the segments of the interrupted sentence
new_sentence_keeping_segments(g) ==
    [g EXCEPT !.active_segment = 0,
              !.crc_xor = 0,
              !.sentence_active = TRUE,
              !.process_crc = TRUE,
              !.char_count = 0,
              !.buf = <<>>]

new_sentence(g) ==
    [g EXCEPT !.gps_segments = <<>>,
              !.active_segment = 0,
              !.crc_xor = 0,
              !.sentence_active = TRUE,
              !.process_crc = TRUE,
              !.char_count = 0,
              !.buf = <<>>]

\* __update_segment
update_segment(g) ==
    [g EXCEPT !.gps_segments = Append(@, g.buf), !.buf = <<>>]

\* update()'s outcome: the object, the exception that escaped ("" for none)
\* and the returned value (<<>> for None, <<id>> for a sentence id); decoder
\* and result record which decoder the call invoked ("" for none) and what
\* it reported
Out(g, exc, val) ==
    [g |-> g, exc |-> exc, val |-> val, decoder |-> "", result |-> ""]

\* lines 670-678: abandon unsupported and overlong sentences, return None
update_tail(g) ==
    IF (g.active_segment = 1 /\ g.gps_segments[1] \notin DOMAIN g.supported)
       \/ g.char_count > SENTENCE_LIMIT
    THEN Out([g EXCEPT !.sentence_active = FALSE], "", <<>>)
    ELSE Out(g, "", <<>>)

\* update_complete that dispatches on segments[0] without comparing the
\* checksum field with the XOR accumulator
update_complete_unchecked(g, now) ==
    LET g1 == update_segment([g EXCEPT !.sentence_active = FALSE])
        key == g1.gps_segments[1]
        Decoded(g2, d) ==
            [(IF d.r = "True"
              THEN Out([d.g EXCEPT !.parsed_sentences = @ + 1], "", <<key>>)
              ELSE IF d.r = "False" THEN update_tail(d.g)
              ELSE Out(d.g, d.r, <<>>))
             EXCEPT !.decoder = g2.supported[key], !.result = d.r]
        Clean(g2) ==
            IF key \notin DOMAIN g2.supported THEN update_tail(g2)
            ELSE Decoded(g2, Decode(g2, key, now))
    IN Clean([g1 EXCEPT !.clean_sentences = @ + 1])

\* lines 649-668: the second checksum character has been stored
update_complete(g, now) ==
    LET g1 == update_segment([g EXCEPT !.sentence_active = FALSE])
        crc == ParseHex(g1.gps_segments[g1.active_segment + 1])
        key == g1.gps_segments[1]
        Decoded(g2, d) ==
            [(IF d.r = "True"
              THEN Out([d.g EXCEPT !.parsed_sentences = @ + 1], "", <<key>>)
              ELSE IF d.r = "False" THEN update_tail(d.g)
              ELSE Out(d.g, d.r, <<>>))
             EXCEPT !.decoder = g2.supported[key], !.result = d.r]
        Clean(g2) ==
            IF key \notin DOMAIN g2.supported THEN update_tail(g2)
            ELSE Decoded(g2, Decode(g2, key, now))
    IN IF ~crc.ok THEN Out(g1, "", <<>>)
       ELSE IF g1.crc_xor # crc.v
       THEN Out([g1 EXCEPT !.crc_fails = @ + 1], "", <<>>)
       ELSE Clean([g1 EXCEPT !.clean_sentences = @ + 1])

\* update_char that leaves the field separators out of the checksum
update_char_skipping_separators(g, ascii_char, now) ==
    IF ascii_char = DOLLAR THEN Out(new_sentence(g), "", <<>>)
    ELSE IF ~g.sentence_active THEN Out(g, "", <<>>)
    ELSE IF ascii_char = STAR
    THEN Out([update_segment([g EXCEPT !.process_crc = FALSE])
                 EXCEPT !.active_segment = @ + 1], "", <<>>)
    ELSE LET g1 == IF ascii_char = COMMA
                   THEN [update_segment(g) EXCEPT !.active_segment = @ + 1]
                   ELSE [g EXCEPT !.buf = Append(@, ascii_char)]
         IN IF g1.process_crc
            THEN update_tail(IF ascii_char = COMMA THEN g1
                             ELSE [g1 EXCEPT !.crc_xor = Xor(@, ascii_char)])
            ELSE IF Len(g1.buf) = 2 THEN update_complete(g1, now)
            ELSE update_tail(g1)

\* lines 622-675, for an accepted character
update_char(g, ascii_char, now) ==
    IF ascii_char = DOLLAR THEN Out(new_sentence(g), "", <<>>)
    ELSE IF ~g.sentence_active THEN Out(g, "", <<>>)
    ELSE IF ascii_char = STAR
    THEN Out([update_segment([g EXCEPT !.process_crc = FALSE])
                 EXCEPT !.active_segment = @ + 1], "", <<>>)
    ELSE LET g1 == IF ascii_char = COMMA
                   THEN [update_segment(g) EXCEPT !.active_segment = @ + 1]
                   ELSE [g EXCEPT !.buf = Append(@, ascii_char)]
         IN IF g1.process_crc
            THEN update_tail([g1 EXCEPT !.crc_xor = Xor(@, ascii_char)])
            ELSE IF Len(g1.buf) = 2 THEN update_complete(g1, now)
            ELSE update_tail(g1)

\* the characters update() accepts: printable ASCII, LF and CR (line 615)
IsAccepted(c) == (32 <= c /\ c <= 126) \/ c \in {10, 13}

\* update that counts the characters it does not accept
update_counting_ignored(g, ascii_char, now) ==
    IF IsAccepted(ascii_char)
    THEN LET g1 == [g EXCEPT !.char_count = @ + 1]
             w == write_log(g1, ascii_char)
         IN IF g1.log_en /\ w.exc # "" THEN Out(w.g, w.exc, <<>>)
            ELSE update_char(IF g1.log_en THEN w.g ELSE g1, ascii_char, now)
    ELSE Out([g EXCEPT !.char_count = @ + 1], "", <<>>)

\* update that logs only the characters of a sentence in progress
update_logging_sentences_only(g, ascii_char, now) ==
    IF IsAccepted(ascii_char)
    THEN LET g1 == [g EXCEPT !.char_count = @ + 1]
             logged == g1.log_en /\ (g.sentence_active \/ ascii_char = DOLLAR)
             w == write_log(g1, ascii_char)
         IN IF logged /\ w.exc # "" THEN Out(w.g, w.exc, <<>>)
            ELSE update_char(IF logged THEN w.g ELSE g1, ascii_char, now)
    ELSE Out(g, "", <<>>)

\* update(new_char), new_char = chr(ascii_char); `now` is what get_ticks()
\* returns during the call
update(g, ascii_char, now) ==
    IF (32 <= ascii_char /\ ascii_char <= 126) \/ ascii_char \in {10, 13}
    THEN LET g1 == [g EXCEPT !.char_count = @ + 1]
             w == write_log(g1, ascii_char)
         IN IF g1.log_en /\ w.exc # "" THEN Out(w.g, w.exc, <<>>)
            ELSE update_char(IF g1.log_en THEN w.g ELSE g1, ascii_char, now)
    ELSE Out(g, "", <<>>)

\* the decoded data of the object (everything but the session state, the
\* counters and the log)
FixModel(g) ==
    [ timestamp |-> g.timestamp, date |-> g.date, century |-> g.century,
      latitude |-> g.latitude, longitude |-> g.longitude, speed |-> g.speed,
      course |-> g.course, altitude |-> g.altitude,
      geoid_height |-> g.geoid_height,
      satellites_in_view |-> g.satellites_in_view,
      satellites_in_use |-> g.satellites_in_use,
      satellites_used |-> g.satellites_used,
      last_sv_sentence |-> g.last_sv_sentence,
      total_sv_sentences |-> g.total_sv_sentences,
      satellite_data |-> g.satellite_data,
      hdop |-> g.hdop, pdop |-> g.pdop, vdop |-> g.vdop, valid |-> g.valid,
      fix_stat |-> g.fix_stat, fix_type |-> g.fix_type, fix_time |-> g.fix_time ]

\* one more call of update() recorded in a running outcome [g, exc, vals, rest]
FeedCall(o, u) ==
    [g |-> u.g, exc |-> u.exc, vals |-> o.vals \o u.val, rest |-> <<>>]

RECURSIVE Feed(_, _, _)
\* `for c in s: update(c)`, until one call raises: [g, exc, vals, rest], vals
\* the values returned (None left out) and rest the characters not passed to
\* update() because an earlier call raised.  The loop over s is evaluated as
\* the loop over its first half followed by the loop over its second half.
Feed(o, s, now) ==
    IF o.exc # "" THEN [o EXCEPT !.rest = @ \o s]
    ELSE IF s = <<>> THEN o
    ELSE IF Len(s) = 1 THEN FeedCall(o, update(o.g, s[1], now))
    ELSE Feed(Feed(o, SubSeq(s, 1, Len(s) \div 2), now),
              SubSeq(s, (Len(s) \div 2) + 1, Len(s)), now)

(***************************************************************************)
(* The character streams fed to update()                                   *)
(***************************************************************************)

RECURSIVE XorFrom(_, _)
XorFrom(acc, body) ==
    IF body = <<>> \/ acc < 0 THEN acc
    ELSE XorFrom(Xor(acc, Head(body)), Tail(body))
\* the NMEA checksum of a sentence body
XorAll(body) == XorFrom(0, body)

HexChar(d) == IF d < 10 THEN 48 + d ELSE 55 + d
\* '$' body '*' hh CR LF, hh the upper-case hex digits of the body's XOR
Sentence(body) ==
    <<DOLLAR>> \o body
        \o <<STAR, HexChar(XorAll(body) \div 16), HexChar(XorAll(body) % 16), 13, 10>>

\* GPRMC,081836,A,3751.65,S,14507.36,E,0.5,,130998
RMC_A ==
    Sentence(<<71, 80, 82, 77, 67, 44, 48, 56, 49, 56, 51, 54, 44, 65, 44,
             51, 55, 53, 49, 46, 54, 53, 44, 83, 44, 49, 52, 53, 48, 55, 46,
             51, 54, 44, 69, 44, 48, 46, 53, 44, 44, 49, 51, 48, 57, 57,
             56>>)

\* GPRMC,,V,,,,,,,,,,N
RMC_V ==
    Sentence(<<71, 80, 82, 77, 67, 44, 44, 86, 44, 44, 44, 44, 44, 44, 44,
             44, 44, 44, 78>>)

\* GPGLL,3711.09,N,08671.44,W,000812,A
GLL_A ==
    Sentence(<<71, 80, 71, 76, 76, 44, 51, 55, 49, 49, 46, 48, 57, 44, 78,
             44, 48, 56, 54, 55, 49, 46, 52, 52, 44, 87, 44, 48, 48, 48, 56,
             49, 50, 44, 65>>)

\* GPVTG,232.9,T,,M,2.3,N
VTG_OK ==
    Sentence(<<71, 80, 86, 84, 71, 44, 50, 51, 50, 46, 57, 44, 84, 44, 44,
             77, 44, 50, 46, 51, 44, 78>>)

\* GPGGA,123519,4807.038,N,01131.000,E,1,08,0.9,545.4,M,46.9,M,,
GGA_FIX ==
    Sentence(<<71, 80, 71, 71, 65, 44, 49, 50, 51, 53, 49, 57, 44, 52, 56,
             48, 55, 46, 48, 51, 56, 44, 78, 44, 48, 49, 49, 51, 49, 46, 48,
             48, 48, 44, 69, 44, 49, 44, 48, 56, 44, 48, 46, 57, 44, 53, 52,
             53, 46, 52, 44, 77, 44, 52, 54, 46, 57, 44, 77, 44, 44>>)

\* GNGSA,A,3,04,05,,,,,,,,,,,2.5,1.3,2.1
GSA_3D ==
    Sentence(<<71, 78, 71, 83, 65, 44, 65, 44, 51, 44, 48, 52, 44, 48, 53,
             44, 44, 44, 44, 44, 44, 44, 44, 44, 44, 44, 50, 46, 53, 44, 49,
             46, 51, 44, 50, 46, 49>>)

\* GPGSV,1,1,01,05,10,20,30
GSV_ONE ==
    Sentence(<<71, 80, 71, 83, 86, 44, 49, 44, 49, 44, 48, 49, 44, 48, 53,
             44, 49, 48, 44, 50, 48, 44, 51, 48>>)

\* GPZDA,160012.71,11,03,2004,-1,00
ZDA_OK ==
    Sentence(<<71, 80, 90, 68, 65, 44, 49, 54, 48, 48, 49, 50, 46, 55, 49,
             44, 49, 49, 44, 48, 51, 44, 50, 48, 48, 52, 44, 45, 49, 44, 48,
             48>>)

\* GPVTG,232.9,T,,M,2.3,N,4.3,K,A,,,,,,,,,,,,,,,,,,,,,,,,,,,,,,,,,,,,,,,,,,,,,,,,,,,,,,,,,
\* (90 characters after the '$', checksum included)
VTG_90 ==
    Sentence(<<71, 80, 86, 84, 71, 44, 50, 51, 50, 46, 57, 44, 84, 44, 44,
             77, 44, 50, 46, 51, 44, 78, 44, 52, 46, 51, 44, 75, 44, 65, 44,
             44, 44, 44, 44, 44, 44, 44, 44, 44, 44, 44, 44, 44, 44, 44, 44,
             44, 44, 44, 44, 44, 44, 44, 44, 44, 44, 44, 44, 44, 44, 44, 44,
             44, 44, 44, 44, 44, 44, 44, 44, 44, 44, 44, 44, 44, 44, 44, 44,
             44, 44, 44, 44, 44, 44, 44, 44>>)

\* GPRMC,101112,A,,,,,,,xx
RMC_BADDATE ==
    Sentence(<<71, 80, 82, 77, 67, 44, 49, 48, 49, 49, 49, 50, 44, 65, 44,
             44, 44, 44, 44, 44, 44, 120, 120>>)

\* GPGGA,131415,4807.038,X,01131.000,E,1,08
GGA_BADHEMI ==
    Sentence(<<71, 80, 71, 71, 65, 44, 49, 51, 49, 52, 49, 53, 44, 52, 56,
             48, 55, 46, 48, 51, 56, 44, 88, 44, 48, 49, 49, 51, 49, 46, 48,
             48, 48, 44, 69, 44, 49, 44, 48, 56>>)

\* GPZDA,160012,11,xx,2004
ZDA_BADMONTH ==
    Sentence(<<71, 80, 90, 68, 65, 44, 49, 54, 48, 48, 49, 50, 44, 49, 49,
             44, 120, 120, 44, 50, 48, 48, 52>>)

\* GPGLL,3711.09,N,08671.44,Q,161718,A
GLL_BADHEMI ==
    Sentence(<<71, 80, 71, 76, 76, 44, 51, 55, 49, 49, 46, 48, 57, 44, 78,
             44, 48, 56, 54, 55, 49, 46, 52, 52, 44, 81, 44, 49, 54, 49, 55,
             49, 56, 44, 65>>)

\* GPGSA,A,3,04,,,,,,,,,,,,x,1.3,2.1
GSA_BADDOP ==
    Sentence(<<71, 80, 71, 83, 65, 44, 65, 44, 51, 44, 48, 52, 44, 44, 44,
             44, 44, 44, 44, 44, 44, 44, 44, 44, 120, 44, 49, 46, 51, 44,
             50, 46, 49>>)

\* GPGSV,1,1,01,xx,10,20,30
GSV_BADPRN ==
    Sentence(<<71, 80, 71, 83, 86, 44, 49, 44, 49, 44, 48, 49, 44, 120, 120,
             44, 49, 48, 44, 50, 48, 44, 51, 48>>)

\* GPVTG,x,T,,M,2.3,N
VTG_BAD ==
    Sentence(<<71, 80, 86, 84, 71, 44, 120, 44, 84, 44, 44, 77, 44, 50, 46,
             51, 44, 78>>)

\* GPGSA
GSA_SHORT ==
    Sentence(<<71, 80, 71, 83, 65>>)

\* GPGSV
GSV_SHORT ==
    Sentence(<<71, 80, 71, 83, 86>>)

\* GPGGA,192021,4807.038,N,01131.000,E,1,08
GGA_SHORT ==
    Sentence(<<71, 80, 71, 71, 65, 44, 49, 57, 50, 48, 50, 49, 44, 52, 56,
             48, 55, 46, 48, 51, 56, 44, 78, 44, 48, 49, 49, 51, 49, 46, 48,
             48, 48, 44, 69, 44, 49, 44, 48, 56>>)

\* $GPRMC,,V,,,,,,,,,,N*00\x0d\x0a
RMC_BADCRC ==
    <<36, 71, 80, 82, 77, 67, 44, 44, 86, 44, 44, 44, 44, 44, 44, 44, 44,
    44, 44, 78, 42, 48, 48, 13, 10>>

\* $GPRMC,,V,,,,,,,,,,N*ZZ\x0d\x0a
RMC_NOHEX ==
    <<36, 71, 80, 82, 77, 67, 44, 44, 86, 44, 44, 44, 44, 44, 44, 44, 44,
    44, 44, 78, 42, 90, 90, 13, 10>>

\* GPXXX,1
XXX_COMMA ==
    Sentence(<<71, 80, 88, 88, 88, 44, 49>>)

\* $GPXXX**4F\x0d\x0a
XXX_STARS ==
    <<36, 71, 80, 88, 88, 88, 42, 42, 52, 70, 13, 10>>

\* $GPGGA,1235
FRAG_FIELD ==
    <<36, 71, 80, 71, 71, 65, 44, 49, 50, 51, 53>>

\* $GPRMC,,V*5
FRAG_CRC ==
    <<36, 71, 80, 82, 77, 67, 44, 44, 86, 42, 53>>

\* x,y*1\x0d\x0a
GARBAGE ==
    <<120, 44, 121, 42, 49, 13, 10>>

\* $GPGGA,AAAAAAAAAAAAAAAAAAAAAAAAAAAAAAAAAAAAAAAAAAAAAAAAAAAAAAAAAAAAAAAAAAAAAAAAAAAAAAAAAAAAAA
OVERLONG ==
    <<36, 71, 80, 71, 71, 65, 44, 65, 65, 65, 65, 65, 65, 65, 65, 65, 65,
    65, 65, 65, 65, 65, 65, 65, 65, 65, 65, 65, 65, 65, 65, 65, 65, 65, 65,
    65, 65, 65, 65, 65, 65, 65, 65, 65, 65, 65, 65, 65, 65, 65, 65, 65, 65,
    65, 65, 65, 65, 65, 65, 65, 65, 65, 65, 65, 65, 65, 65, 65, 65, 65, 65,
    65, 65, 65, 65, 65, 65, 65, 65, 65, 65, 65, 65, 65, 65, 65, 65, 65, 65,
    65, 65, 65, 65>>

\* \x80$GP\x00RMC,,V,\x7f,,,,,,,,,N*5\xff3\x0d\x0a
RMC_NOISY ==
    <<128, 36, 71, 80, 0, 82, 77, 67, 44, 44, 86, 44, 127, 44, 44, 44, 44,
    44, 44, 44, 44, 44, 78, 42, 53, 255, 51, 13, 10>>

\* GPZDA,160012.71,11,03,2104,-1,00
ZDA_21 ==
    Sentence(<<71, 80, 90, 68, 65, 44, 49, 54, 48, 48, 49, 50, 46, 55, 49, 44,
             49, 49, 44, 48, 51, 44, 50, 49, 48, 52, 44, 45, 49, 44, 48, 48>>)

\* GPZDA,171819,12,04,1999,-1,00
ZDA_19 ==
    Sentence(<<71, 80, 90, 68, 65, 44, 49, 55, 49, 56, 49, 57, 44, 49, 50, 44,
             48, 52, 44, 49, 57, 57, 57, 44, 45, 49, 44, 48, 48>>)

\* GPGLL,3711.09,,08671.44,W,192021,A
GLL_NOHEMI ==
    Sentence(<<71, 80, 71, 76, 76, 44, 51, 55, 49, 49, 46, 48, 57, 44, 44, 48,
             56, 54, 55, 49, 46, 52, 52, 44, 87, 44, 49, 57, 50, 48, 50, 49,
             44, 65>>)

\* GPGSV,2,1,06,01,40,83,46,02,17,30,41,12,07,34,39,14,22,28,45
GSV_1OF2 ==
    Sentence(<<71, 80, 71, 83, 86, 44, 50, 44, 49, 44, 48, 54, 44, 48, 49, 44,
             52, 48, 44, 56, 51, 44, 52, 54, 44, 48, 50, 44, 49, 55, 44, 51,
             48, 44, 52, 49, 44, 49, 50, 44, 48, 55, 44, 51, 52, 44, 51, 57,
             44, 49, 52, 44, 50, 50, 44, 50, 56, 44, 52, 53>>)

\* GPGSV,2,2,06,14,23,29,44,25,11,12,13
GSV_2OF2 ==
    Sentence(<<71, 80, 71, 83, 86, 44, 50, 44, 50, 44, 48, 54, 44, 49, 52, 44,
             50, 51, 44, 50, 57, 44, 52, 52, 44, 50, 53, 44, 49, 49, 44, 49,
             50, 44, 49, 51>>)

\* GNGSV,1,1,01,05,10,20,30
GN_GSV_ONE ==
    Sentence(<<71, 78, 71, 83, 86, 44, 49, 44, 49, 44, 48, 49, 44, 48, 53, 44,
             49, 48, 44, 50, 48, 44, 51, 48>>)

\* GPGGA,123520,,,,,0,00,99.9,,,,,,
GGA_NOFIX ==
    Sentence(<<71, 80, 71, 71, 65, 44, 49, 50, 51, 53, 50, 48, 44, 44, 44, 44,
             44, 48, 44, 48, 48, 44, 57, 57, 46, 57, 44, 44, 44, 44, 44, 44>>)

\* $GPGGA, then 84 letters A, then * as the 91st character after the $
LONG_STAR ==
    <<36, 71, 80, 71, 71, 65, 44, 65, 65, 65, 65, 65, 65, 65, 65, 65,
    65, 65, 65, 65, 65, 65, 65, 65, 65, 65, 65, 65, 65, 65, 65, 65,
    65, 65, 65, 65, 65, 65, 65, 65, 65, 65, 65, 65, 65, 65, 65, 65,
    65, 65, 65, 65, 65, 65, 65, 65, 65, 65, 65, 65, 65, 65, 65, 65,
    65, 65, 65, 65, 65, 65, 65, 65, 65, 65, 65, 65, 65, 65, 65, 65,
    65, 65, 65, 65, 65, 65, 65, 65, 65, 65, 65, 42>>

\* GPGLL,3711.09,N,08671.44,W,192021,V
GLL_V ==
    Sentence(<<71, 80, 71, 76, 76, 44, 51, 55, 49, 49, 46, 48, 57, 44, 78, 44,
             48, 56, 54, 55, 49, 46, 52, 52, 44, 87, 44, 49, 57, 50, 48, 50,
             49, 44, 86>>)

\* GPRMC,192022,V,3751.65,S,14507.36,E,1.5,90.0,140998
RMC_VOID ==
    Sentence(<<71, 80, 82, 77, 67, 44, 49, 57, 50, 48, 50, 50, 44, 86, 44, 51,
             55, 53, 49, 46, 54, 53, 44, 83, 44, 49, 52, 53, 48, 55, 46, 51,
             54, 44, 69, 44, 49, 46, 53, 44, 57, 48, 46, 48, 44, 49, 52, 48,
             57, 57, 56>>)

\* GPGSA,A,x,04,05,,,,,,,,,,,2.5,1.3,2.1
GSA_BADTYPE ==
    Sentence(<<71, 80, 71, 83, 65, 44, 65, 44, 120, 44, 48, 52, 44, 48, 53, 44,
             44, 44, 44, 44, 44, 44, 44, 44, 44, 44, 50, 46, 53, 44, 49, 46,
             51, 44, 50, 46, 49>>)

\* GPGSA,A,3,04,x5,,,,,,,,,,,2.5,1.3,2.1
GSA_BADPRN ==
    Sentence(<<71, 80, 71, 83, 65, 44, 65, 44, 51, 44, 48, 52, 44, 120, 53, 44,
             44, 44, 44, 44, 44, 44, 44, 44, 44, 44, 50, 46, 53, 44, 49, 46,
             51, 44, 50, 46, 49>>)

\* GPGSA,A,3,04,05,,,,,,,,,,,2.5,1.3,v
GSA_BADVDOP ==
    Sentence(<<71, 80, 71, 83, 65, 44, 65, 44, 51, 44, 48, 52, 44, 48, 53, 44,
             44, 44, 44, 44, 44, 44, 44, 44, 44, 44, 50, 46, 53, 44, 49, 46,
             51, 44, 118>>)

\* GPGSA,A,3,01,02,03,04,05,06,07,08,09,10,11,12,2.5,1.3,2.1
GSA_FULL ==
    Sentence(<<71, 80, 71, 83, 65, 44, 65, 44, 51, 44, 48, 49, 44, 48, 50, 44,
             48, 51, 44, 48, 52, 44, 48, 53, 44, 48, 54, 44, 48, 55, 44, 48,
             56, 44, 48, 57, 44, 49, 48, 44, 49, 49, 44, 49, 50, 44, 50, 46,
             53, 44, 49, 46, 51, 44, 50, 46, 49>>)

\* GPGSA,A,2,04,,x5,,,,,,,,,,2.5,1.3,2.1
GSA_LATEBAD ==
    Sentence(<<71, 80, 71, 83, 65, 44, 65, 44, 50, 44, 48, 52, 44, 44, 120, 53,
             44, 44, 44, 44, 44, 44, 44, 44, 44, 44, 50, 46, 53, 44, 49, 46,
             51, 44, 50, 46, 49>>)

\* GPGSV,1,1,06,01,,,,02,,,,03,,,,04,,,,05,,,,06,,,,
GSV_SIX ==
    Sentence(<<71, 80, 71, 83, 86, 44, 49, 44, 49, 44, 48, 54, 44, 48, 49, 44,
             44, 44, 44, 48, 50, 44, 44, 44, 44, 48, 51, 44, 44, 44, 44, 48,
             52, 44, 44, 44, 44, 48, 53, 44, 44, 44, 44, 48, 54, 44, 44, 44,
             44>>)

\* GPGSA,A,7,04,05,,,,,,,,,,,2.5,1.3,2.1
GSA_TYPE7 ==
    Sentence(<<71, 80, 71, 83, 65, 44, 65, 44, 55, 44, 48, 52, 44, 48, 53, 44,
             44, 44, 44, 44, 44, 44, 44, 44, 44, 44, 50, 46, 53, 44, 49, 46,
             51, 44, 50, 46, 49>>)

\* GPRMC,123459.99999999999999999999,A,3751.65,S,14507.36,E,0.5,,130998
RMC_ROUNDED ==
    Sentence(<<71, 80, 82, 77, 67, 44, 49, 50, 51, 52, 53, 57, 46, 57, 57, 57,
             57, 57, 57, 57, 57, 57, 57, 57, 57, 57, 57, 57, 57, 57, 57, 57,
             57, 44, 65, 44, 51, 55, 53, 49, 46, 54, 53, 44, 83, 44, 49, 52,
             53, 48, 55, 46, 51, 54, 44, 69, 44, 48, 46, 53, 44, 44, 49, 51,
             48, 57, 57, 56>>)

\* GPRMC,1234-inf,A,3751.65,S,14507.36,E,0.5,,130998
RMC_NEGINF ==
    Sentence(<<71, 80, 82, 77, 67, 44, 49, 50, 51, 52, 45, 105, 110, 102, 44,
             65, 44, 51, 55, 53, 49, 46, 54, 53, 44, 83, 44, 49, 52, 53, 48,
             55, 46, 51, 54, 44, 69, 44, 48, 46, 53, 44, 44, 49, 51, 48, 57,
             57, 56>>)

\* GPVTG,1e400,T,,M,-0.0,N,,K
VTG_HUGE ==
    Sentence(<<71, 80, 86, 84, 71, 44, 49, 101, 52, 48, 48, 44, 84, 44, 44, 77,
             44, 45, 48, 46, 48, 44, 78, 44, 44, 75>>)

\* the input corpus: [text, kind]
Corpus ==
    << [text |-> RMC_A, kind |-> "wellformed"],
       [text |-> RMC_V, kind |-> "wellformed"],
       [text |-> GLL_A, kind |-> "wellformed"],
       [text |-> VTG_OK, kind |-> "wellformed"],
       [text |-> GGA_FIX, kind |-> "wellformed"],
       [text |-> GSA_3D, kind |-> "wellformed"],
       [text |-> GSV_ONE, kind |-> "wellformed"],
       [text |-> ZDA_OK, kind |-> "wellformed"],
       [text |-> VTG_90, kind |-> "wellformed"],
       [text |-> RMC_BADDATE, kind |-> "invalid"],
       [text |-> GGA_BADHEMI, kind |-> "invalid"],
       [text |-> ZDA_BADMONTH, kind |-> "invalid"],
       [text |-> GLL_BADHEMI, kind |-> "invalid"],
       [text |-> GSA_BADDOP, kind |-> "invalid"],
       [text |-> GSV_BADPRN, kind |-> "invalid"],
       [text |-> VTG_BAD, kind |-> "invalid"],
       [text |-> GSA_SHORT, kind |-> "short"],
       [text |-> GSV_SHORT, kind |-> "short"],
       [text |-> GGA_SHORT, kind |-> "short"],
       [text |-> RMC_BADCRC, kind |-> "badcrc"],
       [text |-> RMC_NOHEX, kind |-> "badcrc"],
       [text |-> XXX_COMMA, kind |-> "unregistered"],
       [text |-> XXX_STARS, kind |-> "unregistered"],
       [text |-> FRAG_FIELD, kind |-> "fragment"],
       [text |-> FRAG_CRC, kind |-> "fragment"],
       [text |-> GARBAGE, kind |-> "fragment"],
       [text |-> OVERLONG, kind |-> "long"],
       [text |-> RMC_NOISY, kind |-> "noisy"],
       [text |-> ZDA_21, kind |-> "wellformed"],
       [text |-> ZDA_19, kind |-> "wellformed"],
       [text |-> GLL_NOHEMI, kind |-> "invalid"],
       [text |-> GSV_1OF2, kind |-> "wellformed"],
       [text |-> GSV_2OF2, kind |-> "wellformed"],
       [text |-> GN_GSV_ONE, kind |-> "rebound"],
       [text |-> GGA_NOFIX, kind |-> "wellformed"],
       [text |-> LONG_STAR, kind |-> "long"],
       [text |-> GLL_V, kind |-> "wellformed"],
       [text |-> RMC_VOID, kind |-> "wellformed"],
       [text |-> GSA_BADTYPE, kind |-> "invalid"],
       [text |-> GSA_BADPRN, kind |-> "invalid"],
       [text |-> GSA_BADVDOP, kind |-> "invalid"],
       [text |-> GSA_FULL, kind |-> "wellformed"],
       [text |-> GSA_LATEBAD, kind |-> "wellformed"],
       [text |-> GSV_SIX, kind |-> "wellformed"],
       [text |-> GSA_TYPE7, kind |-> "wellformed"],
       [text |-> RMC_ROUNDED, kind |-> "invalid"],
       [text |-> RMC_NEGINF, kind |-> "wellformed"],
       [text |-> VTG_HUGE, kind |-> "wellformed"] >>

(***************************************************************************)
(* The firmware (src/main.py): serial relay, parser drive, logging control *)
(***************************************************************************)

\* how many chunks the serial port delivers in one run
MaxChunks == 3
\* how many times the card is pulled out in one run
MaxRemovals == 1

IsLeap(y) == (y % 4) = 0 /\ ((y % 100) # 0 \/ (y % 400) = 0)
\* days in month m of year y
DaysInMonth(y, m) ==
    IF m = 2 THEN (IF IsLeap(y) THEN 29 ELSE 28)
    ELSE IF m \in {4, 6, 9, 11} THEN 30
    ELSE 31

\* int(f) of a float, truncation towards zero: [exc, s, n] for the integer
\* s * n, n a natural; exc is the exception int() raises on nan and inf
FloatToInt(f) ==
    IF f.k = "nan" THEN [exc |-> "ValueError", s |-> 1, n |-> <<>>]
    ELSE IF f.k = "inf" THEN [exc |-> "OverflowError", s |-> f.s, n |-> <<>>]
    ELSE [exc |-> "", s |-> f.s, n |-> IntPart(f)]

RECURSIVE Digits(_)
\* str(n) for n >= 0
Digits(n) == IF n < 10 THEN <<48 + n>> ELSE Append(Digits(n \div 10), 48 + (n % 10))
\* f'{n:02d}'
Fmt02d(n) ==
    IF n < 0 THEN <<45>> \o Digits(0 - n)
    ELSE IF n < 10 THEN <<48>> \o Digits(n)
    ELSE Digits(n)

\* the file name main.py formats from a datetime: 'YYMMDD_hhmmss.nmea'
FileStr(y, mo, d, h, mi, s) ==
    Fmt02d(y - 2000) \o Fmt02d(mo) \o Fmt02d(d) \o <<95>>
        \o Fmt02d(h) \o Fmt02d(mi) \o Fmt02d(s)
        \o <<46, 110, 109, 101, 97>>

\* a valid UTC datetime plus timedelta(hours=9, seconds=1), formatted; t is
\* the shifted time of day in seconds, carry the days it overflows by.
\* [ok, exc, v]: the addition raises OverflowError ('date value out of
\* range') when the sum lies beyond the last day of year 9999, the
\* last year a datetime holds
ShiftedFileStr(y, mo, d, t, carry) ==
    LET lastDay == d + carry > DaysInMonth(y, mo)
        lastMonth == lastDay /\ mo = 12
    IN IF lastMonth /\ y + 1 > 9999
       THEN [ok |-> FALSE, exc |-> "OverflowError", v |-> <<>>]
       ELSE [ok |-> TRUE, exc |-> "",
             v |-> FileStr(IF lastMonth THEN y + 1 ELSE y,
                           IF lastMonth THEN 1 ELSE IF lastDay THEN mo + 1 ELSE mo,
                           IF lastDay THEN 1 ELSE d + carry,
                           t \div 3600, (t % 3600) \div 60, t % 60)]

\* datetime.datetime(y, mo, d, h, mi, s, 0, utc) + offset, formatted:
\* [ok, exc, v], exc the ValueError of an out-of-range field or the
\* OverflowError of the addition
FileStrOf(y, mo, d, h, mi, s) ==
    IF /\ 1 <= y /\ y <= 9999
       /\ 1 <= mo /\ mo <= 12
       /\ 1 <= d /\ d <= DaysInMonth(y, mo)
       /\ 0 <= h /\ h <= 23
       /\ 0 <= mi /\ mi <= 59
       /\ 0 <= s /\ s <= 59
    THEN ShiftedFileStr(y, mo, d,
                        (h * 3600 + mi * 60 + s + 9 * 3600 + 1) % 86400,
                        (h * 3600 + mi * 60 + s + 9 * 3600 + 1) \div 86400)
    ELSE [ok |-> FALSE, exc |-> "ValueError", v |-> <<>>]

\* datetime_toJST_filestr(gnss.date, gnss.timestamp, td_jst_wDelay):
\* [ok, exc, v], exc the exception raised when it does not return.  The
\* arguments of datetime.datetime() are evaluated first, int(seconds) among
\* them (line 159); the constructor then takes its integers as C ints
\* (OverflowError beyond 32 bits) before it checks their ranges
\* (ValueError); the addition of the offset comes last
datetime_toJST_filestr(gnss_date, timestamp) ==
    LET Failed(exc) == [ok |-> FALSE, exc |-> exc, v |-> <<>>]
        Of(sec) ==
            IF sec.exc # "" THEN Failed(sec.exc)
            ELSE IF BCmp(sec.n, BPow2(31)) > 0
                    \/ (sec.s > 0 /\ BCmp(sec.n, BPow2(31)) = 0)
            THEN Failed("OverflowError")
            ELSE IF BCmp(sec.n, <<59>>) > 0 \/ (sec.s < 0 /\ sec.n # <<>>)
            THEN Failed("ValueError")
            ELSE FileStrOf(gnss_date[3] + 2000, gnss_date[2], gnss_date[1],
                           timestamp[1], timestamp[2], Limb(sec.n, 1))
    IN Of(FloatToInt(timestamp[3]))

\* datetime_toJST(gnss.date, gnss.timestamp, td_jst_wDelay): "" when it
\* returns, else the exception raised (the same datetime arithmetic as
\* datetime_toJST_filestr)
datetime_toJST(gnss_date, timestamp) ==
    datetime_toJST_filestr(gnss_date, timestamp).exc

\* the double b as the fraction it is: [s, N, Q] for s * N / Q
RatOf(s, b) ==
    [s |-> s,
     N |-> IF b.E >= 0 THEN BMul(b.M, BPow2(b.E)) ELSE b.M,
     Q |-> IF b.E >= 0 THEN <<1>> ELSE BPow2(0 - b.E)]

\* r + n for a fraction r and an integer n, |n| <= Base
RatAdd(r, n) ==
    LET Sum(nQ) ==
            IF n = 0 \/ r.N = <<>> \/ (n < 0) = (r.s < 0)
            THEN [s |-> IF r.N # <<>> THEN r.s ELSE IF n < 0 THEN -1 ELSE 1,
                  N |-> BAdd(r.N, nQ), Q |-> r.Q]
            ELSE IF BCmp(r.N, nQ) >= 0
            THEN [s |-> r.s, N |-> BSub(r.N, nQ), Q |-> r.Q]
            ELSE [s |-> 0 - r.s, N |-> BSub(nQ, r.N), Q |-> r.Q]
    IN Sum(BMulS(r.Q, IF n < 0 THEN 0 - n ELSE n))

RECURSIVE RatDo(_, _, _)
\* the float operations ops[i..] applied to the double r, each result rounded
\* to the nearest double: <<"/", k>> divides by the integer k, 0 < k <= Base,
\* <<"+", n>> adds the integer n
RatDo(r, ops, i) ==
    LET Next(x) == IF x.N = <<>> THEN RatDo(x, ops, i + 1)
                   ELSE RatDo(RatOf(x.s, RoundRat(x.N, x.Q)), ops, i + 1)
    IN IF i > Len(ops) THEN r
       ELSE IF ops[i][1] = "/"
       THEN Next([s |-> r.s, N |-> r.N, Q |-> BMulS(r.Q, ops[i][2])])
       ELSE Next(RatAdd(r, ops[i][2]))

\* int((d + dm/60 + offset)/divisor), the first index gridlocator_calc
\* computes for a coordinate with finite minutes (lines 105-108): [s, n] for
\* the integer s * n, n a natural.  The minutes are the double nearest to
\* their decimal (the division by 1) and each operation rounds to a double.  For
\* minutes of at most seven digits, four of them decimals, and |d| <= 1000
\* the roundings cannot change the integer and it is computed exactly: the
\* exact quotient is an integer only when dm/60 is one, and then every
\* operation is exact; otherwise it is at least 1/(60 * 10^4 * 20) away from
\* an integer, and four roundings of values below 10^6 move it by less than
\* 10^(-9)
grid_index(coord, offset, divisor) ==
    LET dm == coord[2]
        Exact(mins, P) ==
            LET N == (coord[1] + offset) * 60 * P + dm.s * mins
                D == 60 * P * divisor
            IN [s |-> IF N < 0 THEN -1 ELSE 1,
                n |-> BOfInt((IF N < 0 THEN 0 - N ELSE N) \div D)]
        Trunc(r) == [s |-> r.s, n |-> BDivMod(r.N, r.Q).q]
    IN IF Len(dm.m) <= 7 /\ dm.e >= 0 /\ dm.e <= 4
          /\ coord[1] >= -1000 /\ coord[1] <= 1000
       THEN Exact(DigitRunVal([i \in 1..Len(dm.m) |-> 48 + dm.m[i]], 10, 0), Pow10(dm.e))
       ELSE Trunc(RatDo([s |-> dm.s,
                         N |-> BMul10(BOfDigits(dm.m), IF dm.e <= 0 THEN 0 - dm.e ELSE 0),
                         Q |-> BPow10(IF dm.e <= 0 THEN 0 ELSE dm.e)],
                        <<<<"/", 1>>, <<"/", 60>>, <<"+", coord[1]>>,
                          <<"+", offset>>, <<"/", divisor>>>>, 1))

\* gridlocator_calc(lat, lon): "" when it returns, else the exception raised:
\* int() of an infinity or a nan, the latitude's (line 107) before the
\* longitude's (line 108), or __str_array indexed outside its 26 letters
\* (lines 109-110; the later indexes are always in range)
gridlocator_calc(lat, lon) ==
    LET InRange(i) == i.n = <<>> \/ (Len(i.n) = 1 /\ i.n[1] <= (IF i.s < 0 THEN 26 ELSE 25))
    IN IF FloatToInt(lat[2]).exc # "" THEN FloatToInt(lat[2]).exc
       ELSE IF FloatToInt(lon[2]).exc # "" THEN FloatToInt(lon[2]).exc
       ELSE IF \A c \in {<<lon, 180, 20>>, <<lat, 90, 10>>} :
                  InRange(grid_index(c[1], c[2], c[3]))
       THEN "" ELSE "IndexError"

\* display_update lines 175-188, the reads of the Fix Model: "" when they
\* succeed, else the exception raised
display_read(g) ==
    LET Dated(gl) == IF gl # "" THEN gl
                     ELSE IF g.valid THEN datetime_toJST(g.date, g.timestamp)
                     ELSE ""
    IN IF g.fix_type = NO_FIX THEN "" ELSE Dated(gridlocator_calc(g.latitude, g.longitude))

\* an operation on the display (oled.fill, oled.text, oled.show) by `task`
oled_op(f, task) == [f EXCEPT !.unlocked_op = @ \/ (f.oled_lock # task)]

\* MicropyGPS.supported_sentences after main.py has added GNGSV to it
main_supported_sentences ==
    DictUpdate(supported_sentences, [key \in {GN \o GSV} |-> "gpgsv"])

\* what uart.read() may return: a 3D fix (GSA, then RMC with status A), a
\* lost fix (RMC with status V, then GGA with fix status 0 and a later
\* time), a checksum-valid GSA without fields, the beginning of a sentence
\* whose rest is still on the line
Chunks == <<GSA_3D \o RMC_A, RMC_V \o GGA_NOFIX, GSA_SHORT, FRAG_FIELD, RMC_NEGINF>>

\* The firmware state as the asyncio tasks start (main.py lines 13-22, 54,
\* 269, 291).  Globals and locals keep their names; in addition
\*   ctrl      where card_detect_and_loggingCtrl is suspended: "poll" (line
\*             229 comes next), "mount" (in the sleep of line 234),
\*             "wait_stop" (line 249), "wait_stopped" (line 252)
\*   mounted   whether /sd is mounted
\*   raised    the first exception that escaped a task, which gather()
\*             re-raises ("" while there is none), raised_by the task
\*   dead      the tasks an exception has ended
\*   ended     asyncio.run() has returned: no task is resumed any more
\*   uart      where uart_readgnss is: "read" (line 59 comes next) or
\*             "acquire" (suspended in readbuf_lock.acquire(), line 62)
\*   s         the bytes uart_readgnss holds while it is suspended there
\* and, recording the run so that properties can speak of it,
\*   sync      where display_sync is: "wait" (line 208 comes next), "show"
\*             (inside oled.show(), line 210) or "acquire" (suspended in
\*             oled_lock.acquire(), line 209)
\*   npps, nflush   counts of the PPS interrupts and of the calls of oled.show()
\*   oled_lock the task holding oled_lock ("" while it is free)
\*   unlocked_op   a task has operated on the display without holding
\*             oled_lock
\*   readbuf_lock  the task holding readbuf_lock ("" while it is free)
\*   parsed_locked  update() has been called while gnss_update held
\*             readbuf_lock
\*   drained   how many bytes had been passed to update() when gnss_update last
\*             set gnss_updatenow
\*   arrived, fed   the bytes uart.read() has returned / passed to update()
\*   nchunks, nremovals   counts of the environment's actions
\*   session        how many times logging start was requested
\*   sink_session   the session in which the sink was opened
\*   stop_seen      the session whose stop request gnss_update saw last
\*   removed        a removal interrupt fired since the session started
\*   failure        the storage operation that failed ("" for none):
\*                  "sdcard" (line 233), "mount" (line 235), "mkdir" (line
\*                  238), "open" (start_logging)
\*   last_stop, last_umount   the circumstances of the latest stop request
\*                  and of the latest unmount
\*   wrote_unmounted, wrote_after_ack   a drain wrote to the sink while /sd
\*                  was unmounted / after the stop acknowledgment of the
\*                  sink's session was raised
NewFirmware ==
    [ gnss |-> [NewMicropyGPS EXCEPT !.supported = main_supported_sentences],
      buf |-> <<>>,
      gnss_newchar |-> FALSE,
      gnss_logstart |-> FALSE,
      gnss_logstop |-> FALSE,
      gnss_logstopped |-> FALSE,
      gnss_updatenow |-> FALSE,
      logging_stop_flag |-> FALSE,
      Card_Inserted |-> FALSE,
      det_pin |-> 1,
      logfile_str |-> <<>>,
      dt_str |-> <<>>,
      ctrl |-> "poll",
      mounted |-> FALSE,
      raised |-> "",
      raised_by |-> "",
      dead |-> {},
      ended |-> FALSE,
      uart |-> "read",
      s |-> <<>>,
      arrived |-> <<>>,
      fed |-> <<>>,
      nchunks |-> 0,
      nremovals |-> 0,
      session |-> 0,
      sink_session |-> 0,
      stop_seen |-> 0,
      removed |-> FALSE,
      failure |-> "",
      last_stop |-> [session |-> 0, removed |-> FALSE],
      last_umount |-> [session |-> 0, stop_seen |-> 0, sink_open |-> FALSE],
      wrote_unmounted |-> FALSE,
      wrote_after_ack |-> FALSE,
      pps_irq_flag |-> FALSE,
      sync |-> "wait",
      npps |-> 0,
      nflush |-> 0,
      oled_lock |-> "",
      unlocked_op |-> FALSE,
      drained |-> 0,
      readbuf_lock |-> "",
      parsed_locked |-> FALSE ]

\* an exception escapes task `by` and ends it; gather() re-raises the first
\* one in gnss_read, from where it reaches asyncio.run()
Raise(f, exc, by) ==
    [f EXCEPT !.raised = IF @ = "" THEN exc ELSE @,
              !.raised_by = IF f.raised = "" THEN by ELSE @,
              !.dead = @ \cup {by}]

\* the log sink is open
SinkOpen(g) == g.log_handle # <<>> /\ ~g.log_handle[1].closed
\* how many characters the log sink holds
SinkLen(g) == IF g.log_handle = <<>> THEN 0 ELSE Len(g.log_handle[1].data)

\* uart_readgnss, one iteration in which uart.read() returns s (lines 59-65,
\* 73).  readbuf_lock is taken only by a gnss_update that an exception ended
\* before line 93: acquire() then suspends the task for good, s in hand
uart_readgnss(f, s) ==
    IF f.readbuf_lock # ""
    THEN [f EXCEPT !.arrived = @ \o s,
                   !.nchunks = @ + 1,
                   !.s = s,
                   !.uart = "acquire"]
    ELSE [f EXCEPT !.buf = @ \o s,
                   !.gnss_newchar = TRUE,
                   !.arrived = @ \o s,
                   !.nchunks = @ + 1]

\* gnss_update lines 80-84
gnss_update_stop(f) ==
    IF f.gnss_logstop
    THEN [f EXCEPT !.gnss = stop_logging(@),
                   !.gnss_logstop = FALSE,
                   !.gnss_logstopped = TRUE,
                   !.stop_seen = f.last_stop.session]
    ELSE f

\* gnss_update lines 85-86 with their outcome o = Feed(.., f.buf, ..): the
\* loop pops a byte before it passes it to update(), so the bytes left in
\* the queue when update() raises are o.rest
gnss_update_drained(f, o) ==
    LET wrote == f.gnss.log_en /\ SinkLen(o.g) > SinkLen(f.gnss)
        g == [f EXCEPT !.gnss = o.g,
                       !.buf = o.rest,
                       !.fed = @ \o SubSeq(f.buf, 1, Len(f.buf) - Len(o.rest)),
                       !.parsed_locked =
                           @ \/ (f.readbuf_lock = "gnss_update"
                                   /\ Len(o.rest) < Len(f.buf)),
                       !.wrote_unmounted = @ \/ (wrote /\ ~f.mounted),
                       !.wrote_after_ack =
                           @ \/ (wrote /\ f.stop_seen = f.sink_session)]
    IN IF o.exc # "" THEN Raise(g, o.exc, "gnss_update") ELSE g

\* gnss_update lines 87-90; opened: open() succeeds (else it raises OSError,
\* which start_logging does not catch)
gnss_update_start(f, opened) ==
    IF ~f.gnss_logstart THEN f
    ELSE IF opened
    THEN [f EXCEPT !.gnss = start_logging(@, f.logfile_str, "new", <<>>),
                   !.gnss_logstart = FALSE,
                   !.sink_session = f.session]
    ELSE Raise([f EXCEPT !.failure = "open"], "OSError", "gnss_update")

\* gnss_update lines 91-93
gnss_update_end(f) ==
    IF "gnss_update" \in f.dead THEN f
    ELSE [f EXCEPT !.gnss_updatenow = TRUE, !.gnss_newchar = FALSE,
                   !.drained = Len(f.fed), !.readbuf_lock = ""]

\* lines 87-92 run although update() raised during the drain
gnss_update_signalling_always(f, opened) ==
    [gnss_update_start(f, opened) EXCEPT !.gnss_updatenow = TRUE,
                                         !.gnss_newchar = FALSE,
                                         !.drained = Len(f.fed)]

\* gnss_update lines 87-92 after the drain
gnss_update_after_drain(f, opened) ==
    IF "gnss_update" \in f.dead THEN f
    ELSE gnss_update_end(gnss_update_start(f, opened))

\* gnss_update lines 85-92 after the stop request has been handled
gnss_update_from_drain(f, opened) ==
    gnss_update_after_drain(
        gnss_update_drained(f, Feed([g |-> f.gnss, exc |-> "", vals |-> <<>>,
                                     rest |-> <<>>], f.buf, f.nchunks)),
        opened)

\* gnss_update, one pass of its loop from the wake at line 78 to the next
\* wait: no await in between suspends (readbuf_lock is free whenever
\* gnss_update is scheduled)
gnss_update(f, opened) ==
    gnss_update_from_drain(
        gnss_update_stop([f EXCEPT !.readbuf_lock = "gnss_update"]), opened)

\* card_detect_and_loggingCtrl lines 253-257: unmount, then sleep
ctrl_umount(f) ==
    [f EXCEPT !.mounted = FALSE,
              !.Card_Inserted = FALSE,
              !.ctrl = "poll",
              !.last_umount = [session |-> f.session,
                               stop_seen |-> f.stop_seen,
                               sink_open |-> SinkOpen(f.gnss)]]

\* line 252: Event.wait() returns at once when the event is set
ctrl_await_stopped(f) ==
    IF f.gnss_logstopped THEN ctrl_umount(f) ELSE [f EXCEPT !.ctrl = "wait_stopped"]

\* lines 249-251 once logging_stop_flag is set: ThreadSafeFlag.wait() clears
\* the flag as it returns
ctrl_stop(f) ==
    ctrl_await_stopped(
        [f EXCEPT !.logging_stop_flag = FALSE,
                  !.gnss.log_en = FALSE,
                  !.gnss_logstop = TRUE,
                  !.last_stop = [session |-> f.session, removed |-> f.removed]])

\* line 249: ThreadSafeFlag.wait() returns at once when the flag is set
ctrl_await_stop(f) ==
    IF f.logging_stop_flag THEN ctrl_stop(f) ELSE [f EXCEPT !.ctrl = "wait_stop"]

\* lines 240-244 with the file name dt just derived (line 241): the session
\* starts
ctrl_logstart(f, dt) ==
    ctrl_await_stop(
        [f EXCEPT !.dt_str = dt,
                  !.logfile_str = <<47, 115, 100, 47, 76, 79, 71, 47>> \o dt[1],
                  !.gnss_logstart = TRUE,
                  !.session = @ + 1,
                  !.removed = FALSE])

\* lines 240-242: dt_str is assigned only while the fix is valid; otherwise
\* line 242 reads the value an earlier session left, or an unbound local
ctrl_name(f) ==
    IF f.gnss.valid
    THEN LET Named(dt) == IF dt.ok THEN ctrl_logstart(f, <<dt.v>>)
                          ELSE Raise(f, dt.exc, "card_detect_and_loggingCtrl")
         IN Named(datetime_toJST_filestr(f.gnss.date, f.gnss.timestamp))
    ELSE IF f.dt_str = <<>>
    THEN Raise(f, "NameError", "card_detect_and_loggingCtrl")
    ELSE ctrl_logstart(f, f.dt_str)

\* lines 235-244, resumed after the sleep of line 234; outcome: "ok", or
\* the storage operation that raises OSError: "mount" (vfs.mount) or
\* "mkdir" (os.mkdir of the missing LOG directory)
ctrl_mount(f, outcome) ==
    IF outcome = "mount"
    THEN Raise([f EXCEPT !.failure = "mount"], "OSError",
               "card_detect_and_loggingCtrl")
    ELSE IF outcome = "mkdir"
    THEN Raise([f EXCEPT !.mounted = TRUE, !.failure = "mkdir"], "OSError",
               "card_detect_and_loggingCtrl")
    ELSE ctrl_name([f EXCEPT !.mounted = TRUE])

\* a poll that goes on to mount whenever a card is in the slot
ctrl_poll_ignoring_fix(f, sd_ok) ==
    IF f.det_pin = 0
    THEN IF sd_ok THEN [f EXCEPT !.Card_Inserted = TRUE, !.ctrl = "mount"]
         ELSE Raise([f EXCEPT !.Card_Inserted = TRUE, !.failure = "sdcard"],
                    "OSError", "card_detect_and_loggingCtrl")
    ELSE [f EXCEPT !.Card_Inserted = FALSE]

\* lines 229-234 and 245-247, 258-260: one poll of the detect pin;
\* sd_ok: sdcard.SDCard() initialises the card (else it raises OSError)
ctrl_poll(f, sd_ok) ==
    IF f.det_pin = 0
    THEN IF f.gnss.fix_type = FIX_3D /\ f.gnss.valid
         THEN IF sd_ok THEN [f EXCEPT !.Card_Inserted = TRUE, !.ctrl = "mount"]
              ELSE Raise([f EXCEPT !.Card_Inserted = TRUE, !.failure = "sdcard"],
                         "OSError", "card_detect_and_loggingCtrl")
         ELSE [f EXCEPT !.Card_Inserted = TRUE]
    ELSE [f EXCEPT !.Card_Inserted = FALSE]

\* the PPS interrupt: detectPPS (lines 35-36) sets the flag, which holds no
\* count
detectPPS(f) == [f EXCEPT !.pps_irq_flag = TRUE, !.npps = @ + 1]

\* display_sync lines 208-210: ThreadSafeFlag.wait() clears the flag as it
\* returns, and oled.show() starts under oled_lock.  The lock is taken only
\* by a display_update that an exception ended before line 203: acquire()
\* then suspends the task for good
sync_show(f) ==
    IF f.oled_lock # ""
    THEN [f EXCEPT !.pps_irq_flag = FALSE, !.sync = "acquire"]
    ELSE oled_op([f EXCEPT !.pps_irq_flag = FALSE, !.sync = "show",
                           !.nflush = @ + 1,
                           !.oled_lock = "display_sync"], "display_sync")

\* display_sync lines 210-212: oled.show() returns, then the flag is cleared
sync_clear(f) ==
    [f EXCEPT !.pps_irq_flag = FALSE, !.sync = "wait", !.oled_lock = ""]

\* display_update, one pass of its loop from the wake at line 175 to the next
\* wait: oled_lock is free whenever display_update is scheduled, so acquire()
\* does not suspend.  oled.fill(0) (line 189) comes before the lock is taken (line
\* 191), the oled.text() calls (lines 192-202) after.  While a sink is
\* attached line 202 reads gnss.log_charnum, which the MicropyGPS of
\* src/micropyGPS.py does not have: the AttributeError leaves the task with
\* oled_lock held
display_update(f) ==
    LET Drawn(locked) ==
            IF f.gnss.log_en THEN Raise(locked, "AttributeError", "display_update")
            ELSE [locked EXCEPT !.oled_lock = "", !.gnss_updatenow = FALSE]
        Read(exc) ==
            IF exc # "" THEN Raise(f, exc, "display_update")
            ELSE Drawn(oled_op([oled_op(f, "display_update")
                                   EXCEPT !.oled_lock = "display_update"],
                               "display_update"))
    IN Read(display_read(f.gnss))

\* the removal interrupt: det_pin rises and removeCard (lines 38-39) runs
removeCard(f) ==
    [f EXCEPT !.det_pin = 1,
              !.logging_stop_flag = TRUE,
              !.removed = TRUE,
              !.nremovals = @ + 1]

\* a card is pushed in: det_pin falls (no handler is attached to that edge)
insertCard(f) == [f EXCEPT !.det_pin = 0]

\* how many corpus items one run feeds
MaxItems == 2

VARIABLES
    gps,      \* the MicropyGPS object
    ret,      \* the outcome of the latest update() call: [exc, val, decoder, result]
    item,     \* the corpus item being fed (0: none yet)
    pos,      \* how many of its characters have been passed to update()
    prev,     \* the item fed before it (0: none)
    nitems,   \* how many items have been started; also the clock get_ticks() reads
    start,    \* the MicropyGPS object as it was when the current item began
    vals,     \* the sentence ids update() has returned during the current item
    fw        \* the firmware of main.py: a record, see NewFirmware

\* the variables of the parser runs
parser_vars == <<gps, ret, item, pos, prev, nitems, start, vals>>
vars == <<gps, ret, item, pos, prev, nitems, start, vals, fw>>

NoCall == [exc |-> "", val |-> <<>>, decoder |-> "", result |-> ""]

Init ==
    /\ gps = NewMicropyGPS
    /\ ret = NoCall
    /\ item = 0
    /\ pos = 0
    /\ prev = 0
    /\ nitems = 0
    /\ start = NewMicropyGPS
    /\ vals = <<>>
    /\ fw = NewFirmware

ItemText == Corpus[item].text
ItemDone == IF item = 0 THEN TRUE ELSE pos = Len(ItemText)
\* the character the next update() call receives
Fed == ItemText[pos + 1]

\* the two sentences of a GSV series, and how many items a stream made of
\* them alone may have
MaxSeries == 3
InSeries(i) == i # 0 /\ Corpus[i].text \in {GSV_1OF2, GSV_2OF2}
MayArrive(i) ==
    IF nitems < MaxItems THEN TRUE
    ELSE nitems < MaxSeries /\ InSeries(prev) /\ InSeries(item) /\ InSeries(i)

\* the next item of the stream starts arriving
Arrive(i) ==
    /\ ItemDone
    /\ MayArrive(i)
    /\ item' = i
    /\ prev' = item
    /\ pos' = 0
    /\ nitems' = nitems + 1
    /\ start' = gps
    /\ vals' = <<>>
    /\ UNCHANGED <<gps, ret, fw>>

\* the caller passes the next character to update()
Update ==
    /\ ~ItemDone
    /\ \E u \in {update(gps, Fed, nitems)} :
          /\ gps' = u.g
          /\ ret' = [exc |-> u.exc, val |-> u.val, decoder |-> u.decoder,
                     result |-> u.result]
          /\ vals' = vals \o u.val
    /\ pos' = pos + 1
    /\ UNCHANGED <<item, prev, nitems, start, fw>>

\* the name of the log file the caller opens
LOG_NAME == <<108, 111, 103>>

\* the caller attaches a log sink before the stream begins
StartLogging ==
    /\ item = 0
    /\ gps.log_handle = <<>>
    /\ gps' = start_logging(gps, LOG_NAME, "new", <<>>)
    /\ UNCHANGED <<ret, item, pos, prev, nitems, start, vals, fw>>

\* the table with GNGSV bound to a decoder other than gpgsv
rebind_gngsv_to_gpgsa(g) ==
    [g EXCEPT !.supported = DictUpdate(@, [key \in {GN \o GSV} |-> "gpgsa"])]

\* MicropyGPS.supported_sentences['GNGSV'] = MicropyGPS.gpgsv
rebind_gngsv(g) ==
    [g EXCEPT !.supported = DictUpdate(@, [key \in {GN \o GSV} |-> "gpgsv"])]

\* the importing module rebinds GNGSV before the stream begins
Rebind ==
    /\ item = 0
    /\ GN \o GSV \notin DOMAIN gps.supported
    /\ gps' = rebind_gngsv(gps)
    /\ UNCHANGED <<ret, item, pos, prev, nitems, start, vals, fw>>

\* the caller marks the satellite data as read, between two update() calls
\* (a call that finds last_sv_sentence 0 changes nothing)
UnsetSatelliteDataUpdated ==
    /\ gps.last_sv_sentence # 0
    /\ gps' = unset_satellite_data_updated(gps)
    /\ UNCHANGED <<ret, item, pos, prev, nitems, start, vals, fw>>

Next ==
    \/ \E i \in 1..Len(Corpus) : Arrive(i)
    \/ Update
    \/ StartLogging
    \/ Rebind
    \/ UnsetSatelliteDataUpdated

Spec == Init /\ [][Next]_vars

(***************************************************************************)
(* The firmware as a state machine: the asyncio tasks that gnss_read       *)
(* gathers (main.py lines 271-278) and the environment (serial port, card  *)
(* slot, PPS pin).  A task step runs from one suspension to the next;      *)
(* interrupt handlers only set flags.  While oled.show() runs no task is   *)
(* scheduled; interrupts still arrive.                                     *)
(***************************************************************************)

\* asyncio.run() (line 313) has not returned
Running == ~fw.ended

\* the event loop can resume a task: asyncio.run() has not returned and no
\* oled.show() is blocking the loop.  An exception that has escaped a task
\* ends that task only; the others are resumed as before, for as long as
\* gather() has not been resumed
TaskRuns ==
    /\ Running
    /\ fw.sync # "show"
\* the event loop can resume task t
Alive(t) == TaskRuns /\ t \notin fw.dead

\* uart_readgnss relays what the serial port delivered
UartRead(c) ==
    /\ Alive("uart_readgnss")
    /\ fw.uart = "read"
    /\ fw.nchunks < MaxChunks
    /\ fw' = uart_readgnss(fw, Chunks[c])
    /\ UNCHANGED parser_vars

\* gnss_update wakes on gnss_newchar; open() can succeed only on a mounted
\* card that is still in the slot
GnssUpdate ==
    /\ Alive("gnss_update")
    /\ fw.gnss_newchar
    /\ \E opened \in BOOLEAN :
          /\ opened => (fw.gnss_logstart /\ fw.mounted /\ fw.det_pin = 0)
          /\ fw' = gnss_update(fw, opened)
    /\ UNCHANGED parser_vars

\* display_update resumes from gnss_updatenow.wait()
DisplayUpdate ==
    /\ Alive("display_update")
    /\ fw.gnss_updatenow
    /\ fw' = display_update(fw)
    /\ UNCHANGED parser_vars

\* card_detect_and_loggingCtrl polls the detect pin
CtrlPoll ==
    /\ Alive("card_detect_and_loggingCtrl")
    /\ fw.ctrl = "poll"
    /\ \E sd_ok \in BOOLEAN :
          /\ (~sd_ok) => (fw.det_pin = 0 /\ fw.gnss.fix_type = FIX_3D /\ fw.gnss.valid)
          /\ fw' = ctrl_poll(fw, sd_ok)
    /\ UNCHANGED parser_vars

\* card_detect_and_loggingCtrl resumes after the sleep of line 234; mount
\* and mkdir can succeed only while the card is in the slot
CtrlMount ==
    /\ Alive("card_detect_and_loggingCtrl")
    /\ fw.ctrl = "mount"
    /\ \E outcome \in {"ok", "mount", "mkdir"} :
          /\ (outcome # "mount") => fw.det_pin = 0
          /\ fw' = ctrl_mount(fw, outcome)
    /\ UNCHANGED parser_vars

\* card_detect_and_loggingCtrl resumes from logging_stop_flag.wait()
CtrlStop ==
    /\ Alive("card_detect_and_loggingCtrl")
    /\ fw.ctrl = "wait_stop"
    /\ fw.logging_stop_flag
    /\ fw' = ctrl_stop(fw)
    /\ UNCHANGED parser_vars

\* card_detect_and_loggingCtrl resumes from gnss_logstopped.wait()
CtrlUmount ==
    /\ Alive("card_detect_and_loggingCtrl")
    /\ fw.ctrl = "wait_stopped"
    /\ fw.gnss_logstopped
    /\ fw' = ctrl_umount(fw)
    /\ UNCHANGED parser_vars

\* the card is pulled out: the rising edge of det_pin runs removeCard
RemoveCard ==
    /\ Running
    /\ fw.det_pin = 0
    /\ fw.nremovals < MaxRemovals
    /\ fw' = removeCard(fw)
    /\ UNCHANGED parser_vars

\* a card is pushed in
InsertCard ==
    /\ Running
    /\ fw.det_pin = 1
    /\ fw' = insertCard(fw)
    /\ UNCHANGED parser_vars

\* how many PPS interrupts a run has
MaxPPS == 2

\* the rising edge of pps_pin interrupts whatever runs, oled.show() included
DetectPPS ==
    /\ Running
    /\ fw.npps < MaxPPS
    /\ fw' = detectPPS(fw)
    /\ UNCHANGED parser_vars

\* display_sync resumes from pps_irq_flag.wait() and starts the flush
SyncShow ==
    /\ Alive("display_sync")
    /\ fw.sync = "wait"
    /\ fw.pps_irq_flag
    /\ fw' = sync_show(fw)
    /\ UNCHANGED parser_vars

\* the flush ends and display_sync goes back to waiting
SyncClear ==
    /\ Running
    /\ fw.sync = "show"
    /\ fw' = sync_clear(fw)
    /\ UNCHANGED parser_vars

\* gather() is resumed and re-raises the exception, which leaves gnss_read
\* and asyncio.run(): the tasks still suspended are never resumed
Exit ==
    /\ Running
    /\ fw.raised # ""
    /\ fw.sync # "show"
    /\ fw' = [fw EXCEPT !.ended = TRUE]
    /\ UNCHANGED parser_vars

NextMain ==
    \/ \E c \in 1..Len(Chunks) : UartRead(c)
    \/ GnssUpdate
    \/ DisplayUpdate
    \/ CtrlPoll
    \/ CtrlMount
    \/ CtrlStop
    \/ CtrlUmount
    \/ RemoveCard
    \/ InsertCard
    \/ DetectPPS
    \/ SyncShow
    \/ SyncClear
    \/ Exit

SpecMain == Init /\ [][NextMain]_vars

(***************************************************************************)
(* Properties of update() (claims C1 to C5), checked under Spec            *)
(***************************************************************************)

Kind == Corpus[item].kind
\* the characters of the item after its '$', trailing CR LF left out: what
\* char_count has counted when the second checksum character is consumed
CountedLen == Len(ItemText) - 3
\* the sentence id of a wellformed item: the five characters after '$'
SentenceId == SubSeq(ItemText, 2, 6)
\* how many characters have been fed when the second checksum character is
\* consumed (wellformed items end in CR LF)
ChecksumEnd == Len(ItemText) - 2

\* an Update step: the call update(Fed) on the object gps
UpdateStep == ~ItemDone /\ pos' = pos + 1
\* update() takes Fed as the second character of the checksum field
Completing ==
    /\ gps.sentence_active
    /\ ~gps.process_crc
    /\ Len(gps.buf) = 1
    /\ ((32 <= Fed /\ Fed <= 126) \/ Fed \in {10, 13})
    /\ Fed \notin {DOLLAR, COMMA, STAR}
\* the checksum field then denotes, in hex, the XOR accumulated over the body
CrcDenotes ==
    /\ ParseHex(gps.buf \o <<Fed>>).ok
    /\ ParseHex(gps.buf \o <<Fed>>).v = gps.crc_xor

\* C1: no call of update() raises an exception, whatever characters are fed;
\* in particular not on a checksum-valid GSA, GSV or GGA sentence that ends
\* before its mandatory fields.
C1_NeverRaises == ret.exc = ""

\* C2: while a wellformed sentence of a registered type that fits the
\* ceiling (at most SENTENCE_LIMIT characters after its '$') is fed, from
\* whatever state the parser was left in, no call raises, the call that
\* consumes the second checksum character returns the sentence id, and
\* every other call of the sentence returns None.
C2_IdExactlyOnce ==
    (item # 0 /\ pos > 0)
        => ((Kind = "wellformed" /\ CountedLen <= SENTENCE_LIMIT)
               => /\ ret.exc = ""
                  /\ ret.val = IF pos = ChecksumEnd THEN <<SentenceId>> ELSE <<>>)

\* C2 witness: right after a sentence abandoned for exceeding the ceiling, a
\* wellformed sentence has just returned its id at its second checksum
\* character.
C2_Witness ==
    /\ item # 0
    /\ prev # 0
    /\ Corpus[prev].kind = "long"
    /\ Kind = "wellformed"
    /\ pos = ChecksumEnd
    /\ ret.val = <<SentenceId>>
    /\ gps.parsed_sentences = 1

\* C3: update() invokes a decoder, or changes the Fix Model, only in a call
\* that collects the second checksum character of a field denoting the XOR
\* accumulator, with segments[0] in the dispatch table; it returns an id
\* (segments[0]) only when that decoder reported success and whenever it
\* did; parsed_sentences grows by 1 in exactly those calls; a sentence of
\* an unregistered type is never decoded and never changes the Fix Model.
C3_DecodeGate ==
    [][UpdateStep =>
          /\ (ret'.decoder # "" \/ FixModel(gps') # FixModel(gps))
                => (/\ Completing
                    /\ CrcDenotes
                    /\ gps.gps_segments[1] \in DOMAIN gps.supported
                    /\ ret'.decoder = gps.supported[gps.gps_segments[1]])
          /\ (ret'.val # <<>>)
                <=> (ret'.decoder # "" /\ ret'.result = "True")
          /\ (ret'.val # <<>>) => ret'.val = <<gps.gps_segments[1]>>
          /\ gps'.parsed_sentences
                = gps.parsed_sentences + (IF ret'.val # <<>> THEN 1 ELSE 0)
          /\ (Kind = "unregistered")
                => (ret'.decoder = "" /\ FixModel(gps') = FixModel(gps))]_vars

\* C3 witness: a GGA sentence has been decoded at its second checksum
\* character, as the second sentence parsed, and its id returned.
C3_Witness ==
    /\ item # 0
    /\ Kind = "wellformed"
    /\ pos = ChecksumEnd
    /\ ret.decoder = "gpgga"
    /\ ret.result = "True"
    /\ ret.val = <<GP \o GGA>>
    /\ gps.parsed_sentences = 2

\* C4: when the decoder of a checksum-valid sentence reports a field-level
\* failure (update() returns None), every Fix Model field keeps the value it
\* had before the call.
C4_AllOrNothing ==
    [][(UpdateStep /\ ret'.decoder # "" /\ ret'.result = "False")
          => FixModel(gps') = FixModel(gps)]_vars

\* C5: the call that completes a sentence whose checksum field does not
\* denote the XOR accumulator, whatever characters the field holds, adds
\* exactly 1 to crc_fails, leaves clean_sentences and parsed_sentences
\* unchanged and calls no decoder.
C5_CrcFailCounted ==
    [][(UpdateStep /\ Completing /\ ~CrcDenotes)
          => /\ gps'.crc_fails = gps.crc_fails + 1
             /\ gps'.clean_sentences = gps.clean_sentences
             /\ gps'.parsed_sentences = gps.parsed_sentences
             /\ ret'.decoder = ""]_vars


(***************************************************************************)
(* Properties of the firmware (claims C6 to C10), checked under SpecMain   *)
(***************************************************************************)

\* C6: in every logging session the controller unmounts storage only after
\* gnss_update has observed that session's stop request and closed that
\* session's sink: at the latest unmount, the stop request gnss_update saw
\* last was the one of the session being unmounted, and the sink was closed.
C6_UnmountAfterStop ==
    fw.last_umount.session # 0 =>
        /\ fw.last_umount.stop_seen = fw.last_umount.session
        /\ ~fw.last_umount.sink_open

\* C7: once the stop acknowledgment of a session has been raised no byte is
\* written to that session's sink, and nothing is written to any sink while
\* storage is unmounted.
C7_NoWriteAfterStopped == ~fw.wrote_after_ack /\ ~fw.wrote_unmounted

\* C8: a removal interrupt that fires while no logging session is active
\* does not make a later session stop: whenever the controller has raised a
\* stop request for a session, a removal interrupt fired during that session.
C8_IdleRemovalIgnored == fw.last_stop.session # 0 => fw.last_stop.removed

\* C9: a failure to mount storage, to create the log directory or to open
\* the log file is not fatal: afterwards every task still runs, the
\* controller is idle and no sink is attached.
C9_StorageFailureNotFatal ==
    fw.failure \in {"mount", "mkdir", "open"} =>
        /\ fw.raised = ""
        /\ fw.ctrl = "poll"
        /\ ~SinkOpen(fw.gnss)

\* C10: every byte uart_readgnss appends to the queue is eventually passed
\* to update(), exactly once and in arrival order: the bytes fed followed by
\* the bytes queued (and by those uart_readgnss holds while it waits for
\* readbuf_lock) are always the bytes that arrived, and while bytes are
\* queued gnss_newchar is set and no exception has left a task, so that
\* gnss_update is scheduled and feeds them (gnss_newchar is clear only over
\* a drained queue).
C10_EveryByteFed ==
    /\ fw.fed \o fw.buf \o fw.s = fw.arrived
    /\ fw.buf # <<>> => (fw.gnss_newchar /\ fw.raised = "")


(***************************************************************************)
(* Further properties of update() (claims C11 to C16, C19, C20)            *)
(***************************************************************************)

\* g is `expected`, or `expected` after the caller has marked the satellite
\* data as read (unset_satellite_data_updated), which it may do between any
\* two calls of update()
UpToRead(expected, g) == g \in {expected, unset_satellite_data_updated(expected)}

\* the three counters of the object
Counters(g) == <<g.crc_fails, g.clean_sentences, g.parsed_sentences>>

\* C11: whenever update() receives '$', in any session state, the session
\* afterwards is that of a sentence just begun (active, no segments, empty
\* field buffer, accumulator 0, char_count 0, accumulation on), and the fix
\* data and the three counters are unchanged by the call.
C11_DollarResets ==
    [][(UpdateStep /\ Fed = DOLLAR) =>
          /\ gps'.sentence_active
          /\ gps'.gps_segments = <<>>
          /\ gps'.active_segment = 0
          /\ gps'.buf = <<>>
          /\ gps'.crc_xor = 0
          /\ gps'.char_count = 0
          /\ gps'.process_crc
          /\ FixModel(gps') = FixModel(gps)
          /\ Counters(gps') = Counters(gps)
          /\ ret'.exc = "" /\ ret'.val = <<>>]_vars

\* a '$' has arrived while the checksum characters of FRAG_CRC were being
\* collected
C11_Witness ==
    /\ item # 0 /\ prev # 0
    /\ Corpus[prev].text = FRAG_CRC
    /\ pos = 1 /\ ItemText[1] = DOLLAR
    /\ gps.sentence_active /\ gps.process_crc
    /\ gps.gps_segments = <<>> /\ gps.buf = <<>> /\ gps.char_count = 0

\* a stream without the characters update() does not accept
AcceptedOnly(s) == SelectSeq(s, IsAccepted)

\* C12: a byte that is neither printable ASCII nor CR/LF leaves the whole
\* object unchanged, the log sink included, and update() returns None for
\* it; and at every point of a stream with such bytes interleaved, the
\* object and the ids returned so far are those the stream without them
\* produces from the same starting state (up to the caller's read mark on the
\* satellite data, UpToRead).
C12_IgnoredBytes ==
    /\ [][(UpdateStep /\ ~IsAccepted(Fed)) =>
             (gps' = gps /\ ret'.exc = "" /\ ret'.val = <<>>)]_vars
    /\ []((item # 0 /\ Kind = "noisy") =>
             \E o \in {Feed([g |-> start, exc |-> "", vals |-> <<>>, rest |-> <<>>],
                            AcceptedOnly(SubSeq(ItemText, 1, pos)), nitems)} :
                 o.exc = "" /\ UpToRead(o.g, gps) /\ o.vals = vals)

\* the noisy sentence has been fed to an object with a log sink attached,
\* after another item: its id was returned and the sink holds the accepted
\* characters only
C12_Witness ==
    /\ item # 0 /\ prev # 0
    /\ Kind = "noisy" /\ pos = Len(ItemText)
    /\ Len(AcceptedOnly(ItemText)) < Len(ItemText)
    /\ vals = <<GP \o RMC>>
    /\ SinkOpen(gps)
    /\ gps.log_handle[1].data = Corpus[prev].text \o AcceptedOnly(ItemText)

\* C13: a ZDA sentence whose century is the stored century plus one is
\* accepted and updates century; one whose century is lower than the stored
\* century is rejected: update() returns nothing for it, and date and century
\* keep their previous values.  (Stated once the checksum of a ZDA sentence
\* has been processed, about the century its year field carries.)
C13_CenturyMonotone ==
    (/\ item # 0 /\ Kind = "wellformed" /\ SentenceId = GP \o ZDA
     /\ pos >= ChecksumEnd
     /\ start.century # <<>>) =>
        \E c \in {ParseInt(Slice(gps.gps_segments[5], 0, 2)).v} :
            /\ (c = start.century[1] + 1) =>
                   (gps.century = <<c>> /\ vals = <<GP \o ZDA>>)
            /\ (c < start.century[1]) =>
                   /\ vals = <<>>
                   /\ gps.date = start.date
                   /\ gps.century = start.century

\* C14: the stored latitude hemisphere is always N or S and the stored
\* longitude hemisphere always E or W; a sentence whose hemisphere field is
\* anything else, the empty field included, fails to decode and leaves
\* latitude and longitude unchanged.  (The second half is stated for GLL
\* sentences with status A, once the checksum has been processed.)
HemiNS == {<<78>>, <<83>>}
HemiEW == {<<69>>, <<87>>}
C14_HemisphereDomain ==
    /\ gps.latitude[3] \in HemiNS
    /\ gps.longitude[3] \in HemiEW
    /\ (/\ item # 0 /\ Kind \in {"wellformed", "invalid"}
        /\ SentenceId = GP \o GLL
        /\ pos >= ChecksumEnd
        /\ Len(gps.gps_segments) >= 7
        /\ gps.gps_segments[7] = <<65>>
        /\ (gps.gps_segments[3] \notin HemiNS \/ gps.gps_segments[5] \notin HemiEW))
       => /\ vals = <<>>
          /\ gps.latitude = start.latitude
          /\ gps.longitude = start.longitude

\* the satellites the GSV sentences of the corpus carry
SatEntry(elevation, azimuth, snr) == <<<<elevation>>, <<azimuth>>, <<snr>>>>
SATS_ONE == 5 :> SatEntry(10, 20, 30)
SATS_1OF2 ==
    1 :> SatEntry(40, 83, 46) @@ 2 :> SatEntry(17, 30, 41) @@
    12 :> SatEntry(7, 34, 39) @@ 14 :> SatEntry(22, 28, 45)
SATS_2OF2 == 14 :> SatEntry(23, 29, 44) @@ 25 :> SatEntry(11, 12, 13)
SATS_BOTH ==
    1 :> SatEntry(40, 83, 46) @@ 2 :> SatEntry(17, 30, 41) @@
    12 :> SatEntry(7, 34, 39) @@ 14 :> SatEntry(23, 29, 44) @@
    25 :> SatEntry(11, 12, 13)
OwnSats ==
    IF ItemText = GSV_ONE THEN SATS_ONE
    ELSE IF ItemText = GSV_1OF2 THEN SATS_1OF2 ELSE SATS_2OF2

\* C15: after a GSV sentence of index 1 satellite_data holds exactly that
\* sentence's satellites; after one of index above 1 it is the previous map
\* overridden by the sentence's entries.  Index 1 then index 2 of a total of 2
\* yields the union of both, and a following index 1 replaces it.
\* (last_sv_sentence is the sentence's index until the caller marks the
\* satellite data as read.)
C15_SatelliteSeries ==
    (/\ item # 0 /\ pos >= ChecksumEnd
     /\ ItemText \in {GSV_ONE, GSV_1OF2, GSV_2OF2}) =>
        /\ vals = <<GP \o GSV>>
        /\ gps.last_sv_sentence \in {0, IF ItemText = GSV_2OF2 THEN 2 ELSE 1}
        /\ gps.satellite_data =
               IF ItemText = GSV_2OF2
               THEN DictUpdate(start.satellite_data, OwnSats) ELSE OwnSats
        /\ (ItemText = GSV_2OF2 /\ prev # 0 /\ Corpus[prev].text = GSV_1OF2)
               => gps.satellite_data = SATS_BOTH
C15_Witness ==
    /\ nitems = MaxSeries /\ pos = Len(ItemText)
    /\ ItemText = GSV_1OF2 /\ Corpus[prev].text = GSV_2OF2
    /\ start.satellite_data = SATS_BOTH
    /\ gps.satellite_data = SATS_1OF2

\* C16: once GNGSV is bound to the GSV decoder, a checksum-valid GNGSV
\* sentence returns GNGSV and changes the Fix Model exactly as the same body
\* does under GPGSV; while GNGSV is not in the table when its sentence
\* arrives, the sentence is not decoded.  (The Fix Models are compared up to
\* the caller's read mark on the satellite data, UpToRead.)
C16_Rebinding ==
    (item # 0 /\ ItemText = GN_GSV_ONE /\ pos >= ChecksumEnd) =>
        IF GN \o GSV \in DOMAIN gps.supported
        THEN /\ vals = <<GN \o GSV>>
             /\ \E o \in {Feed([g |-> start, exc |-> "", vals |-> <<>>,
                                rest |-> <<>>], GSV_ONE, nitems)} :
                    /\ o.vals = <<GP \o GSV>>
                    /\ UpToRead(FixModel(o.g), FixModel(gps))
                    /\ Counters(o.g) = Counters(gps)
        ELSE /\ vals = <<>>
             /\ UpToRead(FixModel(start), FixModel(gps))
             /\ gps.parsed_sentences = start.parsed_sentences
C16_Witness ==
    /\ item # 0 /\ ItemText = GN_GSV_ONE /\ pos = Len(ItemText)
    /\ prev # 0 /\ Corpus[prev].text = GSV_1OF2
    /\ GN \o GSV \in DOMAIN gps.supported
    /\ gps.supported[GN \o GSV] = "gpgsv"
    /\ vals = <<GN \o GSV>>
    /\ start.satellite_data = SATS_1OF2
    /\ gps.satellite_data = SATS_ONE
C16_WitnessUnbound ==
    /\ item # 0 /\ ItemText = GN_GSV_ONE /\ pos = Len(ItemText)
    /\ GN \o GSV \notin DOMAIN gps.supported
    /\ prev # 0 /\ Corpus[prev].text = GSV_1OF2
    /\ ~gps.sentence_active
    /\ gps.satellite_data = SATS_1OF2

\* C19: while a sink is attached (log_en true), every accepted character
\* passed to update() is written to it exactly once, in order, whatever the
\* sentence state, the checksum outcome or the sentence type; a character
\* that is not accepted is not written; without a sink update() writes
\* nothing.  So after one or two items the sink holds the accepted characters
\* of the stream so far.
C19_LogEveryAccepted ==
    /\ [][UpdateStep =>
            IF gps.log_en
            THEN /\ SinkOpen(gps) /\ SinkOpen(gps')
                 /\ gps'.log_handle[1].data =
                        IF IsAccepted(Fed)
                        THEN Append(gps.log_handle[1].data, Fed)
                        ELSE gps.log_handle[1].data
            ELSE gps'.log_handle = <<>> /\ gps.log_handle = <<>>]_vars
    /\ []((item # 0 /\ gps.log_en /\ nitems \in {1, 2}) =>
            gps.log_handle[1].data =
                AcceptedOnly((IF prev = 0 THEN <<>> ELSE Corpus[prev].text)
                             \o SubSeq(ItemText, 1, pos)))
\* C19 witness: the sink holds a sentence that failed its checksum followed
\* by a sentence of an unregistered type, every character of both
C19_Witness ==
    /\ item # 0 /\ prev # 0 /\ pos = Len(ItemText)
    /\ Corpus[prev].kind = "badcrc" /\ Kind = "unregistered"
    /\ gps.log_en /\ SinkOpen(gps)
    /\ gps.log_handle[1].data = Corpus[prev].text \o ItemText
    /\ gps.parsed_sentences = 0

\* a and b are equal, or differ only in that the caller has marked the
\* satellite data of one of them as read
SameUpToRead(a, b) ==
    /\ unset_satellite_data_updated(a) = unset_satellite_data_updated(b)
    /\ (a.last_sv_sentence = b.last_sv_sentence
          \/ 0 \in {a.last_sv_sentence, b.last_sv_sentence})

\* the Fix Model without the time of the last fix
FixModelButTime(g) == [FixModel(g) EXCEPT !.fix_time = 0]

\* C20: feeding the same valid, decoded sentence twice leaves every field of
\* the Fix Model except fix_time the same after the second feed as after the
\* first; only clean_sentences and parsed_sentences advance.  This holds for
\* every registered type, a GSV sentence of index above 1 and ZDA included.
\* (Up to the caller's read mark on the satellite data, which it may set
\* after either feed: SameUpToRead.)
C20_SecondFeedSame ==
    (/\ item # 0 /\ prev = item /\ Kind = "wellformed"
     /\ pos >= ChecksumEnd) =>
        /\ vals = <<SentenceId>>
        /\ SameUpToRead(FixModelButTime(start), FixModelButTime(gps))
        /\ Counters(gps) = <<start.crc_fails, start.clean_sentences + 1,
                             start.parsed_sentences + 1>>
\* C20 witness: the second sentence of a GSV series has been fed twice after
\* the first one
C20_Witness ==
    /\ nitems = MaxSeries /\ prev = item /\ pos = Len(ItemText)
    /\ ItemText = GSV_2OF2
    /\ gps.satellite_data = SATS_BOTH /\ start.satellite_data = SATS_BOTH
    /\ gps.parsed_sentences = 3
\* the same for ZDA: the century the first feed set is kept by the second
C20_WitnessZDA ==
    /\ nitems = 2 /\ prev = item /\ pos = Len(ItemText)
    /\ ItemText = ZDA_21
    /\ gps.century = <<21>> /\ start.century = <<21>>
    /\ gps.date = start.date /\ gps.parsed_sentences = 2

\* C21: a well-formed GGA sentence with non-zero fix status and correct
\* checksum returns its identifier and sets timestamp, latitude, longitude,
\* fix_stat, satellites_in_use, hdop, altitude and geoid_height to the values
\* of its fields (for GPGGA,123519,4807.038,N,01131.000,E,1,08,0.9,545.4,M,
\* 46.9,M,, these are (12,35,19.0), (48, 7.038, 'N'), (11, 31.0, 'E'), 1, 8,
\* 0.9, 545.4, 46.9); with fix status 0 it leaves latitude, longitude,
\* altitude and geoid_height unchanged.
C21_FixData ==
    /\ (item # 0 /\ ItemText = GGA_FIX /\ pos >= ChecksumEnd) =>
          /\ vals = <<GP \o GGA>>
          /\ gps.timestamp = <<12, 35, Flt(19, 0)>>
          /\ gps.latitude = <<48, Flt(7038, 3), <<78>>>>
          /\ gps.longitude = <<11, Flt(31, 0), <<69>>>>
          /\ gps.fix_stat = 1
          /\ gps.satellites_in_use = 8
          /\ gps.hdop = Flt(9, 1)
          /\ gps.altitude = Flt(5454, 1)
          /\ gps.geoid_height = Flt(469, 1)
    /\ (item # 0 /\ ItemText = GGA_NOFIX /\ pos >= ChecksumEnd) =>
          /\ vals = <<GP \o GGA>>
          /\ gps.timestamp = <<12, 35, Flt(20, 0)>>
          /\ gps.fix_stat = 0
          /\ gps.satellites_in_use = 0
          /\ gps.hdop = Flt(999, 1)
          /\ gps.latitude = start.latitude
          /\ gps.longitude = start.longitude
          /\ gps.altitude = start.altitude
          /\ gps.geoid_height = start.geoid_height
\* C21 witness: the sentence without a fix has been decoded after the one
\* with a fix, whose position and altitude are still stored
C21_Witness ==
    /\ item # 0 /\ prev # 0 /\ pos = Len(ItemText)
    /\ ItemText = GGA_NOFIX /\ Corpus[prev].text = GGA_FIX
    /\ gps.fix_stat = 0 /\ start.fix_stat = 1
    /\ gps.latitude = <<48, Flt(7038, 3), <<78>>>>
    /\ gps.altitude = Flt(5454, 1)
    /\ gps.parsed_sentences = 2

\* C28: clean_sentences increases by exactly 1 for every sentence whose
\* two-character checksum equals the XOR of its body, whether or not its
\* type is registered in the dispatch table.  (Stated for the sentences of
\* the corpus that carry their correct checksum and fit the ceiling, once
\* the checksum has been fed.)
C28_CleanCounted ==
    (/\ item # 0 /\ Kind \in {"wellformed", "unregistered"}
     /\ CountedLen <= SENTENCE_LIMIT
     /\ pos >= ChecksumEnd) =>
        gps.clean_sentences = start.clean_sentences + 1

\* the characters fed so far from the previous item and the current one
FedStream ==
    (IF prev = 0 THEN <<>> ELSE Corpus[prev].text) \o SubSeq(ItemText, 1, pos)
\* the position of the last c in s (0: none), and of the first one
LastOf(s, c) ==
    IF \E i \in 1..Len(s) : s[i] = c
    THEN CHOOSE i \in 1..Len(s) : s[i] = c /\ \A j \in (i + 1)..Len(s) : s[j] # c
    ELSE 0
FirstOf(s, c) ==
    IF \E i \in 1..Len(s) : s[i] = c
    THEN CHOOSE i \in 1..Len(s) : s[i] = c /\ \A j \in 1..(i - 1) : s[j] # c
    ELSE 0
\* the accepted characters of s after its most recent '$'
SinceDollar(s) ==
    SubSeq(AcceptedOnly(s), LastOf(AcceptedOnly(s), DOLLAR) + 1,
           Len(AcceptedOnly(s)))
\* and those of them before the first following '*'
BodyOf(s) == SubSeq(SinceDollar(s), 1, FirstOf(SinceDollar(s), STAR) - 1)
\* update() is about to receive the second checksum character
AtCompare == item # 0 /\ ~ItemDone /\ Completing

\* C29: at the moment the checksum is compared, the accumulator equals the
\* XOR of exactly the accepted characters received after the most recent '$'
\* and before the first following '*': field separators are included; '$',
\* '*', the checksum characters and ignored bytes are excluded.
C29_AccumulatorIsBodyXor ==
    (AtCompare /\ FirstOf(FedStream, DOLLAR) # 0) =>
        gps.crc_xor = XorAll(BodyOf(FedStream))

\* the comparison is reached on a sentence with separators and ignored bytes
C29_Witness ==
    /\ AtCompare /\ Kind = "noisy"
    /\ FirstOf(BodyOf(FedStream), COMMA) # 0
    /\ \E i \in 1..pos : ~IsAccepted(ItemText[i])
    /\ gps.crc_xor = XorAll(BodyOf(FedStream))
    /\ CrcDenotes
\* and on one whose '$' arrived in the item before
C29_WitnessAcrossItems ==
    /\ AtCompare /\ prev # 0
    /\ FirstOf(SubSeq(ItemText, 1, pos), DOLLAR) = 0
    /\ gps.crc_xor = XorAll(BodyOf(FedStream))

\* an RMC or GLL sentence whose status field is not 'A' has been decoded
VoidDecoded(texts) ==
    item # 0 /\ ItemText \in texts /\ pos >= ChecksumEnd
\* what both decoders do with it: the position is cleared, valid is false,
\* time and date stay, and the parse is reported as successful
VoidCommon ==
    /\ gps.latitude = CLEAR_LAT
    /\ gps.longitude = CLEAR_LON
    /\ gps.valid = FALSE
    /\ gps.timestamp = start.timestamp
    /\ gps.date = start.date
    /\ vals = <<SentenceId>>
    /\ gps.parsed_sentences = start.parsed_sentences + 1

\* C30: an RMC or GLL sentence whose status field is not 'A' resets latitude
\* and longitude to their cleared values, sets speed and course to 0 and
\* valid to false, leaves timestamp and date unchanged, and is still reported
\* as a successful parse (identifier returned, parsed_sentences incremented).
C30_VoidClearsMotion ==
    VoidDecoded({RMC_V, RMC_VOID, GLL_V}) =>
        /\ VoidCommon
        /\ gps.speed = Flt(0, 0)
        /\ gps.course = Flt(0, 0)

\* C30, as the code has it: both sentences reset latitude and longitude, set
\* valid to false, leave timestamp and date unchanged and are reported as a
\* successful parse; the RMC sentence also sets speed and course to 0, the
\* GLL sentence, which carries neither, leaves them unchanged.
C30_VoidClearsPosition ==
    /\ VoidDecoded({RMC_V, RMC_VOID, GLL_V}) => VoidCommon
    /\ VoidDecoded({RMC_V, RMC_VOID}) =>
          gps.speed = Flt(0, 0) /\ gps.course = Flt(0, 0)
    /\ VoidDecoded({GLL_V}) =>
          gps.speed = start.speed /\ gps.course = start.course
\* C30 witness: the GLL sentence without a fix follows an RMC fix with speed
\* 0.5; the position is cleared, the time of the fix and its speed stay
C30_Witness ==
    /\ VoidDecoded({GLL_V}) /\ prev # 0 /\ Corpus[prev].text = RMC_A
    /\ start.valid /\ ~gps.valid
    /\ start.latitude # CLEAR_LAT /\ gps.latitude = CLEAR_LAT
    /\ gps.timestamp = <<8, 18, Flt(36, 0)>>
    /\ gps.speed = Flt(5, 1)
    /\ gps.parsed_sentences = 2
\* and the RMC sentence without a fix follows it: speed is zeroed
C30_WitnessRMC ==
    /\ VoidDecoded({RMC_VOID}) /\ prev # 0 /\ Corpus[prev].text = RMC_A
    /\ start.speed = Flt(5, 1) /\ gps.speed = Flt(0, 0)
    /\ gps.timestamp = <<8, 18, Flt(36, 0)>>
    /\ gps.date = start.date /\ ~gps.valid
    /\ gps.parsed_sentences = 2

\* what gpgsa writes: fix type, satellites used, the three DOPs, fix time
GsaData(g) ==
    <<g.fix_type, g.satellites_used, g.pdop, g.hdop, g.vdop, g.fix_time>>
\* the current item is one of texts and its checksum has been fed
Decoded(texts) ==
    item # 0 /\ ItemText \in texts /\ pos >= ChecksumEnd

\* C31: a GSA sentence in which the fix type, a PRN before the first empty
\* PRN field, or one of PDOP/HDOP/VDOP is not numeric fails as a whole:
\* fix_type, satellites_used, pdop, hdop, vdop and fix_time keep their
\* previous values and no identifier is returned.  On success satellites_used
\* holds at most 12 PRNs, in field order, up to the first empty field.
C31_GsaAllOrNothing ==
    /\ [](/\ Decoded({GSA_BADTYPE, GSA_BADPRN, GSA_BADDOP, GSA_BADVDOP}) =>
             /\ GsaData(gps) = GsaData(start)
             /\ vals = <<>>
             /\ gps.parsed_sentences = start.parsed_sentences
          /\ Decoded({GSA_3D}) =>
                vals = <<GN \o GSA>> /\ gps.satellites_used = <<4, 5>>
          /\ Decoded({GSA_FULL}) =>
                /\ vals = <<GP \o GSA>>
                /\ gps.satellites_used = <<1, 2, 3, 4, 5, 6, 7, 8, 9, 10, 11, 12>>
          /\ Decoded({GSA_LATEBAD}) =>
                vals = <<GP \o GSA>> /\ gps.satellites_used = <<4>>
          /\ Len(gps.satellites_used) <= 12)
    /\ [][(UpdateStep /\ ret'.decoder = "gpgsa" /\ ret'.result = "False")
            => GsaData(gps') = GsaData(gps)]_vars
\* C31 witness: a GSA sentence with a malformed PRN follows one with twelve
\* PRNs and a 3D fix, whose data are all still stored
C31_Witness ==
    /\ Decoded({GSA_BADPRN}) /\ prev # 0 /\ Corpus[prev].text = GSA_FULL
    /\ ret.decoder = "gpgsa" /\ ret.result = "False"
    /\ gps.fix_type = FIX_3D /\ gps.fix_time = 1
    /\ Len(gps.satellites_used) = 12
    /\ gps.pdop = Flt(25, 1)
    /\ gps.clean_sentences = 2 /\ gps.parsed_sentences = 1

\* the entries of satellite_data that a call added or replaced
Touched(old, new) ==
    {k \in DOMAIN new : k \notin DOMAIN old \/ new[k] # old[k]}

\* C32: one GSV sentence adds or replaces at most 4 entries of
\* satellite_data, whatever values its total-count, index and
\* satellites-in-view fields carry.
C32_FourPerSentence ==
    [][(UpdateStep /\ ret'.decoder = "gpgsv")
          => Cardinality(Touched(gps.satellite_data, gps'.satellite_data)) <= 4]_vars

\* C33: in every reachable state fix_type is one of no-fix (1), 2D (2) or
\* 3D (3), whatever fix-type field an accepted GSA sentence carries.
C33_FixTypeDomain ==
    gps.fix_type \in {NO_FIX, FIX_2D, FIX_3D}

\* the century the year field of the sentence just decoded carries
CarriedCentury(g) == ParseInt(Slice(g.gps_segments[5], 0, 2)).v

\* C34: once century has a value it never decreases and changes only by
\* exactly +1, and only when a ZDA sentence is decoded; a ZDA sentence
\* carrying any other century leaves century unchanged, and no other sentence
\* type changes it.
C34_CenturySteps ==
    /\ [][gps.century # <<>> =>
            \/ gps'.century = gps.century
            \/ /\ gps'.century = <<gps.century[1] + 1>>
               /\ UpdateStep
               /\ ret'.decoder = "gpzda" /\ ret'.result = "True"
               /\ CarriedCentury(gps') = gps.century[1] + 1]_vars
    /\ [][(/\ UpdateStep /\ ret'.decoder = "gpzda" /\ ret'.result = "True"
           /\ gps.century # <<>>
           /\ CarriedCentury(gps') # gps.century[1] + 1)
            => gps'.century = gps.century]_vars
    /\ [][ret'.decoder # "gpzda" => gps'.century = gps.century]_vars
\* C34 witness: a ZDA sentence of century 21 has been decoded by an object
\* that held century 20, and century is now 21
C34_Witness ==
    /\ Decoded({ZDA_21}) /\ prev # 0 /\ Corpus[prev].text = ZDA_OK
    /\ start.century = <<20>> /\ gps.century = <<21>>
    /\ vals = <<GP \o ZDA>>
\* and one of century 19 has been decoded by it: century is still 20
C34_WitnessOther ==
    /\ Decoded({ZDA_19}) /\ prev # 0 /\ Corpus[prev].text = ZDA_OK
    /\ start.century = <<20>> /\ gps.century = <<20>>
    /\ vals = <<GP \o ZDA>>

(***************************************************************************)
(* Further properties of the firmware (claims C17, C18)                    *)
(***************************************************************************)

\* the poll iteration sees a card in the slot and a valid 3D fix
FixObserved == fw.det_pin = 0 /\ fw.gnss.fix_type = FIX_3D /\ fw.gnss.valid
\* a step of the controller from line 229: one poll iteration
PollStep ==
    /\ Alive("card_detect_and_loggingCtrl") /\ fw.ctrl = "poll"
    /\ \E sd_ok \in BOOLEAN : fw' = ctrl_poll(fw, sd_ok)

\* C17: the controller mounts the medium and requests the start of logging
\* only in a poll iteration that observed the medium present, fix_type 3D
\* and valid true; with the medium present but no such fix the iteration
\* mounts nothing, opens no sink, and waits and polls again.
C17_MountNeedsFix ==
    [][/\ (fw.ctrl # "mount" /\ fw'.ctrl = "mount")
              => (fw.ctrl = "poll" /\ FixObserved)
       /\ ((fw'.mounted /\ ~fw.mounted)
             \/ (fw'.gnss_logstart /\ ~fw.gnss_logstart)
             \/ fw'.session # fw.session)
              => fw.ctrl = "mount"
       /\ (PollStep /\ fw.det_pin = 0 /\ ~FixObserved)
              => /\ fw'.ctrl = "poll" /\ fw'.dead = fw.dead
                 /\ fw'.mounted = fw.mounted
                 /\ fw'.gnss_logstart = fw.gnss_logstart
                 /\ fw'.session = fw.session
                 /\ fw'.gnss = fw.gnss]_vars
\* C17 witness: a session has been started on a mounted card, and the
\* controller waits for its end
C17_Witness ==
    /\ fw.raised = "" /\ fw.mounted /\ fw.gnss_logstart /\ fw.session = 1
    /\ fw.ctrl = "wait_stop" /\ fw.Card_Inserted
\* a card was seen while there was no fix: nothing mounted, no session
C17_WitnessNoFix ==
    /\ fw.raised = "" /\ fw.Card_Inserted /\ fw.det_pin = 0 /\ fw.ctrl = "poll"
    /\ fw.gnss.fix_type = NO_FIX /\ fw.session = 0 /\ ~fw.mounted
    /\ fw.gnss.log_handle = <<>>

\* C18: display_sync performs exactly one flush per PPS interrupt: there is
\* no flush without an interrupt, and no interrupt, one arriving during a
\* flush or before the previous one was consumed included, is left without
\* its own flush.  (Whenever display_sync waits with no interrupt pending,
\* as many flushes have been made as interrupts have arrived.)
C18_FlushPerInterrupt ==
    /\ fw.nflush <= fw.npps
    /\ (fw.sync = "wait" /\ ~fw.pps_irq_flag) => fw.nflush = fw.npps

\* C24: the sink is attached (start_logging) and detached (log_en cleared,
\* stop_logging) only while the parser is between sentences (sentence_active
\* false), however the serial bytes are split across drain cycles.
C24_LogAtSentenceBoundary ==
    [][/\ (SinkOpen(fw'.gnss) /\ fw'.gnss.log_handle # fw.gnss.log_handle
             /\ ~SinkOpen(fw.gnss))
            => ~fw'.gnss.sentence_active
       /\ (fw.gnss.log_en /\ ~fw'.gnss.log_en) => ~fw.gnss.sentence_active
       /\ (SinkOpen(fw.gnss) /\ ~SinkOpen(fw'.gnss))
            => ~fw.gnss.sentence_active]_vars

\* C25: readbuf_lock is held only while bytes are appended to or removed
\* from the queue: no update() call of the per-character parse loop executes
\* while gnss_update holds readbuf_lock.
C25_NoParseUnderLock == ~fw.parsed_locked

\* C26: each time the controller requests logging start, the log file name
\* was derived in that same iteration from the Fix Model's date and
\* timestamp, also when the fix stops being valid between the qualifying-fix
\* check and the name derivation.
C26_NameFromThisFix ==
    [][(fw'.session # fw.session) =>
          \E n \in {datetime_toJST_filestr(fw.gnss.date, fw.gnss.timestamp)} :
              /\ n.ok
              /\ fw'.dt_str = <<n.v>>
              /\ fw'.logfile_str = <<47, 115, 100, 47, 76, 79, 71, 47>> \o n.v]_vars

\* C35: at most one log sink is open at any time: start_logging is never
\* called while a sink opened by an earlier start_logging has not yet been
\* closed, for every interleaving of insertion polls, removal interrupts,
\* controller steps and drain cycles.  (A drain cycle that opens a sink finds
\* the earlier one closed, or closes it itself on a pending stop request.)
C35_OneSinkOpen ==
    [][fw'.sink_session # fw.sink_session
          => (~SinkOpen(fw.gnss) \/ fw.gnss_logstop)]_vars

\* the card was pulled during the logging session whose sink is open, the
\* controller has requested the stop and awaits its acknowledgement, and the
\* other tasks have nothing left to run: display_update and display_sync
\* wait for their signals and uart_readgnss polls the serial port
StopAwaited ==
    /\ fw.raised = ""
    /\ fw.uart = "read" /\ fw.sync = "wait"
    /\ ~fw.gnss_updatenow /\ ~fw.pps_irq_flag
    /\ fw.ctrl = "wait_stopped"
    /\ fw.removed
    /\ fw.sink_session = fw.session
    /\ SinkOpen(fw.gnss)

\* C36: under fair scheduling of all tasks, a removal interrupt during an
\* active logging session always leads to the controller unmounting storage
\* and returning to Idle, whether or not further serial bytes arrive after
\* the removal.  (Stated as what the tasks need to get there by themselves:
\* whenever the controller awaits the acknowledgement of such a stop, the
\* acknowledgement is set or gnss_update has a wake-up pending; otherwise
\* every task is suspended until the serial port delivers another byte.)
C36_RemovalLeadsToIdle ==
    StopAwaited => (fw.gnss_logstopped \/ fw.gnss_newchar)

(***************************************************************************)
(* Properties of the display tasks (claims C22, C27)                       *)
(***************************************************************************)

\* C22: gnss_update sets gnss_updatenow only after the queue has been
\* drained to empty and every drained byte has been passed through update();
\* display_update therefore never reads the Fix Model between two update()
\* calls of one drain cycle: whenever it runs, the bytes passed to update()
\* are those of whole drain cycles, or of a cycle that an exception of
\* update() has ended, after which gnss_update calls update() no more.
C22_SignalAfterDrain ==
    /\ [][((~fw.gnss_updatenow /\ fw'.gnss_updatenow)
             \/ fw'.drained # fw.drained)
            => /\ "gnss_update" \notin fw'.dead
               /\ fw'.buf = <<>>
               /\ fw'.fed = fw'.arrived
               /\ fw'.drained = Len(fw'.fed)]_vars
    /\ [][(fw.gnss_updatenow /\ ~fw'.gnss_updatenow)
            => /\ (fw.drained = Len(fw.fed) \/ "gnss_update" \in fw.dead)
               /\ fw'.gnss = fw.gnss]_vars
\* C22 witness: display_update has consumed the signal of a drain cycle, two
\* more chunks have arrived and been drained in one cycle, and the signal is
\* set again
C22_Witness ==
    /\ fw.raised = "" /\ fw.gnss_updatenow /\ fw.unlocked_op
    /\ fw.nchunks = 3 /\ fw.buf = <<>> /\ fw.fed = fw.arrived
    /\ fw.drained = Len(fw.fed)
    /\ fw.gnss.parsed_sentences = 4

\* C23: in every state reached after update() returns, sentence_active
\* implies char_count <= SENTENCE_LIMIT: a sentence that has consumed more
\* than the ceiling is no longer active.
C23_ActiveWithinCeiling ==
    gps.sentence_active => gps.char_count <= SENTENCE_LIMIT

\* C27: every operation on the display device (clear, text drawing, flush)
\* by display_update and display_sync is executed while the executing task
\* holds oled_lock, and neither task operates on the display while the other
\* holds the lock.
C27_DisplayUnderLock ==
    /\ ~fw.unlocked_op
    /\ (fw.sync = "show") <=> (fw.oled_lock = "display_sync")
    /\ fw.oled_lock = "display_update" => "display_update" \in fw.dead

====
